---- MODULE Spec2Model ----
(***************************************************************************)
(* Home Assistant custom components for Claude (claude_vertex_ai_          *)
(* conversation) and Gemini (vertex_ai_conversation) on Vertex AI.        *)
(*                                                                         *)
(* SpecSetup models the life cycle of config entries: async_setup_entry   *)
(* (split at its await points), async_unload_entry, the client property   *)
(* read by the platform entities and the client the Claude config flow    *)
(* builds for its location lookup.                                        *)
(* SpecCred is the same life cycle over every credential string.          *)
(* SpecChat models conversation turns on a chat log; SpecRequest models   *)
(* the requests of all platforms: conversation, AI task, speech-to-text   *)
(* and text-to-speech.                                                    *)
(* SpecTools models parse_custom_tools and SpecScript the execution of a  *)
(* custom tool; SpecFlow models the subentry flow of the Claude           *)
(* integration and SpecDiag its diagnostics.                              *)
(* SpecFiles follows the credentials temp files of the Claude path over   *)
(* setups, unloads, location lookups and config-flow validations;         *)
(* SpecConfig models the config flow of the Gemini integration.           *)
(***************************************************************************)
EXTENDS Naturals, Integers, Sequences, FiniteSets, TLC

VARIABLES
    \* ---- config entry life cycle (SpecSetup)
    domain,       \* the integration whose entries are followed: the two share no state
    pc,           \* entry -> position of the entry's setup / unload coroutine
    outcome,      \* entry -> how the last async_setup_entry run ended
    log,          \* entry -> last _LOGGER.error / warning message of the entry's run
    built,        \* entry -> kind of credentials object built by the current/last setup run
    runFile,      \* entry -> credentials_file.name of the current/last run (NoPath: None)
    runClient,    \* entry -> local client of the running setup (NoClient: none)
    validations,  \* entry -> validation calls made by the current/last setup run
    clientsBuilt, \* entry -> client objects constructed for the entry since its setup began
    used,         \* entry -> client handles the platform entities of the loaded entry have used
    hassKeys,     \* the DOMAIN keys present in hass.data
    hassData,     \* entry -> hass.data[DOMAIN][entry_id]
    files,        \* credentials temp files that exist on disk
    unlinkErrors, \* the files whose os.unlink raised
    created,      \* number of credentials temp files created so far
    env,          \* os.environ["GOOGLE_APPLICATION_CREDENTIALS"]
    \* ---- request path (SpecChat, SpecRequest)
    chatLog,      \* the chat log list the host passes as conversation_id
    turn,         \* caller -> the conversation turn the caller runs
    reqResult,    \* the last AI task / STT / TTS request and how it ended
    \* ---- custom tools (SpecTools, SpecScript)
    toolsIn,      \* the custom tools option, a YAML string
    toolsOut,     \* what parse_custom_tools made of it
    sequence,     \* function_config["sequence"] of the tool that is called
    stepNo,       \* position of the loop of _execute_script in the sequence
    results,      \* the results list of _execute_script
    scriptPc,     \* position of the call: idle, running, returned, raised
    \* ---- subentry flow of the Claude integration (SpecFlow)
    flow,         \* the subentry flow handler: its options, the form it shows, how it ended
    subentry,     \* the stored subentry: its type and data
    \* ---- diagnostics (SpecDiag)
    diagEntry,    \* the config entry whose diagnostics are asked for
    diagOut,      \* what async_get_config_entry_diagnostics returned
    \* ---- config flow of the Gemini integration (SpecConfig)
    configFlow,   \* the config flow handler: its step, the last submission, how it ended
    configEntries \* unique id -> the config entry of that project and its data

setupVars == <<domain, pc, outcome, log, built, runFile, runClient, validations,
               clientsBuilt, used, hassKeys, hassData, files, unlinkErrors, created, env>>
chatVars == <<chatLog, turn, reqResult>>
toolVars == <<toolsIn, toolsOut, sequence, stepNo, results, scriptPc>>
flowVars == <<flow, subentry>>
diagVars == <<diagEntry, diagOut>>
configVars == <<configFlow, configEntries>>
vars == <<domain, pc, outcome, log, built, runFile, runClient, validations,
          clientsBuilt, used, hassKeys, hassData, files, unlinkErrors, created, env,
          chatLog, turn, reqResult,
          toolsIn, toolsOut, sequence, stepNo, results, scriptPc,
          flow, subentry, diagEntry, diagOut,
          configFlow, configEntries>>

(***************************************************************************)
(* Bounds                                                                  *)
(***************************************************************************)
\* config entries of the integration
MaxEntries == 1
\* credentials temp files created in one behaviour
MaxFiles == 3
\* clients constructed for one entry during one life time
MaxClients == 2

Domains == {"claude", "gemini"}
Entries == 1..MaxEntries

NoPath == 0
NoClient == 0

(***************************************************************************)
(* Credential strings.  A string either is no JSON text, or is the JSON    *)
(* text of an array, or of an object with an optional "type" member and a  *)
(* set of further members.                                                 *)
(***************************************************************************)
SAKeys == {"client_email", "token_uri", "private_key"}
AUKeys == {"client_id", "client_secret", "refresh_token"}
NoType == "<absent>"
TypeValues == {NoType, "service_account", "authorized_user", "external_account"}
KeySets == (SUBSET SAKeys) \cup (SUBSET AUKeys)

CredStrings ==
    {[wf |-> FALSE, shape |-> "text", type |-> NoType, keys |-> {}]}
    \cup {[wf |-> TRUE, shape |-> "array", type |-> NoType, keys |-> {}]}
    \cup {[wf |-> TRUE, shape |-> "object", type |-> t, keys |-> k] :
             t \in TypeValues, k \in KeySets}

\* One credential string of each kind, for the life cycle of the entries
SampleCreds ==
    {[wf |-> FALSE, shape |-> "text", type |-> NoType, keys |-> {}],
     [wf |-> TRUE, shape |-> "array", type |-> NoType, keys |-> {}],
     [wf |-> TRUE, shape |-> "object", type |-> NoType, keys |-> {}],
     [wf |-> TRUE, shape |-> "object", type |-> "service_account", keys |-> {"client_email"}],
     [wf |-> TRUE, shape |-> "object", type |-> "service_account", keys |-> SAKeys],
     [wf |-> TRUE, shape |-> "object", type |-> "authorized_user", keys |-> AUKeys]}

\* json.loads: the parsed value, or JSONDecodeError
json_loads(s) ==
    IF s.wf
    THEN [exc |-> "none", value |-> [shape |-> s.shape, type |-> s.type, keys |-> s.keys]]
    ELSE [exc |-> "JSONDecodeError", value |-> [shape |-> "none", type |-> NoType, keys |-> {}]]

\* Variant: also requires a "project_id" member, which no string here has
from_service_account_info_strict(info) ==
    IF info.shape # "object" THEN [exc |-> "AttributeError", kind |-> "none"]
    ELSE IF ~((SAKeys \cup {"project_id"}) \subseteq info.keys)
    THEN [exc |-> "ValueError", kind |-> "none"]
    ELSE [exc |-> "none", kind |-> "service_account"]

\* service_account.Credentials.from_service_account_info(info)
from_service_account_info(info) ==
    IF info.shape # "object" THEN [exc |-> "AttributeError", kind |-> "none"]
    ELSE IF ~(SAKeys \subseteq info.keys) THEN [exc |-> "ValueError", kind |-> "none"]
    ELSE [exc |-> "none", kind |-> "service_account"]

\* Credentials.from_authorized_user_info(info)
from_authorized_user_info(info) ==
    IF ~(AUKeys \subseteq info.keys) THEN [exc |-> "ValueError", kind |-> "none"]
    ELSE [exc |-> "none", kind |-> "authorized_user"]

\* The body of the first try block of the Claude async_setup_entry
ClaudeBuildCredentials(s) ==
    LET parsed == json_loads(s) IN
    IF parsed.exc # "none" THEN [exc |-> parsed.exc, kind |-> "none"]
    ELSE LET info == parsed.value IN
         IF info.shape # "object" THEN [exc |-> "AttributeError", kind |-> "none"]
         ELSE IF info.type = "service_account" THEN from_service_account_info(info)
         ELSE IF info.type = "authorized_user" THEN from_authorized_user_info(info)
         ELSE [exc |-> "ConfigEntryAuthFailed", kind |-> "none"]

\* The body of the first try block of the Gemini async_setup_entry
GeminiBuildCredentials(s) ==
    LET parsed == json_loads(s) IN
    IF parsed.exc # "none" THEN [exc |-> parsed.exc, kind |-> "none"]
    ELSE from_service_account_info(parsed.value)

BuildCredentials(d, s) ==
    IF d = "claude" THEN ClaudeBuildCredentials(s) ELSE GeminiBuildCredentials(s)

\* Variant: a missing field is reported as a connection problem
CredentialHandlersRetry(exc) ==
    IF exc = "JSONDecodeError"
    THEN [raises |-> "ConfigEntryAuthFailed", log |-> "invalid_json"]
    ELSE IF exc \in {"KeyError", "ValueError"}
    THEN [raises |-> "ConfigEntryNotReady", log |-> "missing_fields"]
    ELSE IF exc = "GoogleAuthError"
    THEN [raises |-> "ConfigEntryAuthFailed", log |-> "google_auth"]
    ELSE IF exc = "ConfigEntryAuthFailed"
    THEN [raises |-> exc, log |-> "invalid_type"]
    ELSE [raises |-> exc, log |-> ""]

\* Variant: no except clause for JSONDecodeError
CredentialHandlersNoJson(exc) ==
    IF exc \in {"KeyError", "ValueError"}
    THEN [raises |-> "ConfigEntryAuthFailed", log |-> "missing_fields"]
    ELSE IF exc = "GoogleAuthError"
    THEN [raises |-> "ConfigEntryAuthFailed", log |-> "google_auth"]
    ELSE IF exc = "ConfigEntryAuthFailed"
    THEN [raises |-> exc, log |-> "invalid_type"]
    ELSE [raises |-> exc, log |-> ""]

\* The except clauses of the first try block (the same in both integrations):
\* what leaves async_setup_entry, and the message logged.
CredentialHandlers(exc) ==
    IF exc = "JSONDecodeError"
    THEN [raises |-> "ConfigEntryAuthFailed", log |-> "invalid_json"]
    ELSE IF exc \in {"KeyError", "ValueError"}
    THEN [raises |-> "ConfigEntryAuthFailed", log |-> "missing_fields"]
    ELSE IF exc = "GoogleAuthError"
    THEN [raises |-> "ConfigEntryAuthFailed", log |-> "google_auth"]
    ELSE IF exc = "ConfigEntryAuthFailed"
    THEN [raises |-> exc, log |-> "invalid_type"]
    ELSE [raises |-> exc, log |-> ""]

\* Variant: no except clause for GoogleAuthError in the second try block
ConnectHandlersNotReady(exc) ==
    [raises |-> "ConfigEntryNotReady", log |-> "connect_failed"]

\* The except clauses of the second try block (the same in both integrations)
ConnectHandlers(exc) ==
    IF exc = "GoogleAuthError"
    THEN [raises |-> "ConfigEntryAuthFailed", log |-> "auth_during_validation"]
    ELSE [raises |-> "ConfigEntryNotReady", log |-> "connect_failed"]

\* Exceptions the statements of the second try block can raise: writing the
\* file fails with OSError; the client constructor and the validation call fail
\* with GoogleAuthError or with any other exception
PrepExceptions(prep) ==
    IF prep = "client" THEN {"GoogleAuthError", "Exception"} ELSE {"OSError"}
ValidationResults == {"ok", "GoogleAuthError", "Exception"}

\* tempfile.NamedTemporaryFile: a name no earlier temp file had; the files are
\* named in the order of their creation
FreshPath == created + 1

NoData == [present |-> FALSE, client |-> NoClient, credentials |-> "none",
           credentials_path |-> NoPath]

\* Variant: the handlers do not remove the file
CleanupFileSkipped(fs, path, unlinkOk) == fs

\* "if credentials_file and os.path.exists(credentials_file.name): os.unlink(...)"
\* with the failure of os.unlink swallowed: the files left on disk
CleanupFile(fs, path, unlinkOk) ==
    IF path # NoPath /\ path \in fs /\ unlinkOk THEN fs \ {path} ELSE fs

\* The file whose os.unlink raised in that statement, if there is one
UnlinkRaised(fs, path, unlinkOk) ==
    IF path # NoPath /\ path \in fs /\ ~unlinkOk THEN {path} ELSE {}

(***************************************************************************)
(* async_setup_entry, up to its first await.                               *)
(*   s     entry.data[CONF_SERVICE_ACCOUNT_JSON]                           *)
(*   prep  what happens between the credentials and the validation call:   *)
(*         "ok", or the statement that raises                              *)
(*   exc   the exception that statement raises                             *)
(***************************************************************************)
PrepFailures(d) ==
    IF d = "claude" THEN {"tempfile", "dump", "client"} ELSE {"client"}

SetupFail(e, raised, msg) ==
    /\ pc' = [pc EXCEPT ![e] = "idle"]
    /\ outcome' = [outcome EXCEPT ![e] = raised]
    /\ log' = [log EXCEPT ![e] = msg]
    /\ runClient' = [runClient EXCEPT ![e] = NoClient]
    /\ used' = [used EXCEPT ![e] = {}]

SetupBegin(e, s, prep, exc, unlinkOk) ==
    LET d == domain
        cred == BuildCredentials(d, s)
        path == FreshPath
    IN
    /\ pc[e] = "idle"
    /\ (d = "claude" /\ cred.exc = "none" /\ prep # "tempfile") => created < MaxFiles
    /\ validations' = [validations EXCEPT ![e] = 0]
    /\ UNCHANGED <<domain, hassKeys, hassData>>
    /\ IF cred.exc # "none"
       THEN \* the first try block raised
            /\ SetupFail(e, CredentialHandlers(cred.exc).raises,
                         CredentialHandlers(cred.exc).log)
            /\ built' = [built EXCEPT ![e] = "none"]
            /\ clientsBuilt' = [clientsBuilt EXCEPT ![e] = 0]
            /\ runFile' = [runFile EXCEPT ![e] = NoPath]
            /\ UNCHANGED <<files, unlinkErrors, created, env>>
       ELSE IF prep = "ok"
       THEN \* file written, variable set, client built, validation awaited
            /\ pc' = [pc EXCEPT ![e] = "validating"]
            /\ outcome' = [outcome EXCEPT ![e] = "none"]
            /\ log' = [log EXCEPT ![e] = ""]
            /\ built' = [built EXCEPT ![e] = cred.kind]
            /\ runFile' = [runFile EXCEPT ![e] = IF d = "claude" THEN path ELSE NoPath]
            /\ files' = IF d = "claude" THEN files \cup {path} ELSE files
            /\ created' = IF d = "claude" THEN created + 1 ELSE created
            /\ env' = IF d = "claude" THEN path ELSE env
            /\ UNCHANGED unlinkErrors
            /\ runClient' = [runClient EXCEPT ![e] = 1]
            /\ clientsBuilt' = [clientsBuilt EXCEPT ![e] = 1]
            /\ used' = [used EXCEPT ![e] = {}]
       ELSE \* a statement of the second try block raised before the await
            /\ SetupFail(e, ConnectHandlers(exc).raises, ConnectHandlers(exc).log)
            /\ built' = [built EXCEPT ![e] = cred.kind]
            /\ clientsBuilt' = [clientsBuilt EXCEPT ![e] = 0]
            /\ IF d = "claude" /\ prep # "tempfile"
               THEN \* the file was created: the handler cleans up
                    /\ runFile' = [runFile EXCEPT ![e] = path]
                    /\ files' = CleanupFile(files \cup {path}, path, unlinkOk)
                    /\ unlinkErrors' = unlinkErrors
                                          \cup UnlinkRaised(files \cup {path}, path, unlinkOk)
                    /\ created' = created + 1
                    /\ env' = IF prep = "client" THEN path ELSE env
               ELSE /\ runFile' = [runFile EXCEPT ![e] = NoPath]
                    /\ UNCHANGED <<files, unlinkErrors, created, env>>
    /\ UNCHANGED <<chatVars, toolVars, flowVars, diagVars, configVars>>

(***************************************************************************)
(* async_setup_entry, from the return of the executor job that ran         *)
(* _validate_connection to the await of async_forward_entry_setups.        *)
(***************************************************************************)
\* hass.data[DOMAIN][entry.entry_id] = {...}
StoredData(e) ==
    [present |-> TRUE, client |-> runClient[e], credentials |-> built[e],
     credentials_path |-> runFile[e]]

\* Variant: the data is stored and the platforms are forwarded whatever the
\* validation call did
SetupValidatedStored(e, result, unlinkOk) ==
    /\ pc[e] = "validating"
    /\ validations' = [validations EXCEPT ![e] = @ + 1]
    /\ hassKeys' = hassKeys \cup {domain}
    /\ hassData' = [hassData EXCEPT ![e] = StoredData(e)]
    /\ pc' = [pc EXCEPT ![e] = "forwarding"]
    /\ UNCHANGED <<outcome, log, runClient, used, files, unlinkErrors>>
    /\ UNCHANGED <<domain, built, clientsBuilt, runFile, created, env>>
    /\ UNCHANGED <<chatVars, toolVars, flowVars, diagVars, configVars>>

SetupValidated(e, result, unlinkOk) ==
    /\ pc[e] = "validating"
    /\ validations' = [validations EXCEPT ![e] = @ + 1]
    /\ IF result = "ok"
       THEN /\ hassKeys' = hassKeys \cup {domain}
            /\ hassData' = [hassData EXCEPT ![e] = StoredData(e)]
            /\ pc' = [pc EXCEPT ![e] = "forwarding"]
            /\ UNCHANGED <<outcome, log, runClient, used, files, unlinkErrors>>
       ELSE /\ SetupFail(e, ConnectHandlers(result).raises, ConnectHandlers(result).log)
            /\ files' = IF domain = "claude"
                        THEN CleanupFile(files, runFile[e], unlinkOk)
                        ELSE files
            /\ unlinkErrors' = IF domain = "claude"
                               THEN unlinkErrors \cup UnlinkRaised(files, runFile[e], unlinkOk)
                               ELSE unlinkErrors
            /\ UNCHANGED <<hassKeys, hassData>>
    /\ UNCHANGED <<domain, built, clientsBuilt, runFile, created, env>>
    /\ UNCHANGED <<chatVars, toolVars, flowVars, diagVars, configVars>>

\* async_setup_entry, from the return of async_forward_entry_setups: return True
SetupForwarded(e) ==
    /\ pc[e] = "forwarding"
    /\ pc' = [pc EXCEPT ![e] = "loaded"]
    /\ outcome' = [outcome EXCEPT ![e] = "True"]
    /\ runClient' = [runClient EXCEPT ![e] = NoClient]
    /\ UNCHANGED <<domain, log, built, runFile, validations, clientsBuilt, used,
                   hassKeys, hassData, files, unlinkErrors, created, env>>
    /\ UNCHANGED <<chatVars, toolVars, flowVars, diagVars, configVars>>

(***************************************************************************)
(* async_unload_entry: up to the await of async_unload_platforms, and from *)
(* its return (unload_ok) to the end.                                      *)
(***************************************************************************)
UnloadBegin(e) ==
    /\ pc[e] = "loaded"
    /\ pc' = [pc EXCEPT ![e] = "unloading"]
    /\ UNCHANGED <<domain, outcome, log, built, runFile, runClient, validations, clientsBuilt,
                   used, hassKeys, hassData, files, unlinkErrors, created, env>>
    /\ UNCHANGED <<chatVars, toolVars, flowVars, diagVars, configVars>>

\* Variant: the clean-up runs whatever async_unload_platforms returned
UnloadFinishUnchecked(e, unload_ok, unlinkOk) ==
    LET d == domain
        path == hassData[e].credentials_path
        left == [hassData EXCEPT ![e] = NoData]
    IN
    /\ pc[e] = "unloading"
    /\ files' = IF d = "claude" THEN CleanupFile(files, path, unlinkOk) ELSE files
    /\ unlinkErrors' = IF d = "claude"
                       THEN unlinkErrors \cup UnlinkRaised(files, path, unlinkOk)
                       ELSE unlinkErrors
    /\ log' = [log EXCEPT ![e] = IF unload_ok THEN "unloaded" ELSE "unload_failed"]
    /\ hassData' = left
    /\ hassKeys' = IF \E o \in Entries : left[o].present THEN hassKeys ELSE hassKeys \ {d}
    /\ pc' = [pc EXCEPT ![e] = IF unload_ok THEN "idle" ELSE "failed_unload"]
    /\ outcome' = [outcome EXCEPT ![e] = "none"]
    /\ built' = [built EXCEPT ![e] = "none"]
    /\ validations' = [validations EXCEPT ![e] = 0]
    /\ clientsBuilt' = [clientsBuilt EXCEPT ![e] = 0]
    /\ used' = [used EXCEPT ![e] = {}]
    /\ UNCHANGED <<domain, runFile, runClient, created, env>>
    /\ UNCHANGED <<chatVars, toolVars, flowVars, diagVars, configVars>>

UnloadFinish(e, unload_ok, unlinkOk) ==
    LET d == domain
        path == hassData[e].credentials_path
        left == [hassData EXCEPT ![e] = NoData]
    IN
    /\ pc[e] = "unloading"
    /\ IF unload_ok
       THEN /\ files' = IF d = "claude" THEN CleanupFile(files, path, unlinkOk) ELSE files
            /\ unlinkErrors' = IF d = "claude"
                               THEN unlinkErrors \cup UnlinkRaised(files, path, unlinkOk)
                               ELSE unlinkErrors
            /\ log' = [log EXCEPT ![e] =
                          IF d = "claude" /\ path # NoPath /\ path \in files /\ ~unlinkOk
                          THEN "cleanup_failed" ELSE "unloaded"]
            /\ hassData' = left
            /\ hassKeys' = IF \E o \in Entries : left[o].present
                           THEN hassKeys ELSE hassKeys \ {d}
            /\ pc' = [pc EXCEPT ![e] = "idle"]
            /\ outcome' = [outcome EXCEPT ![e] = "none"]
            /\ built' = [built EXCEPT ![e] = "none"]
            /\ validations' = [validations EXCEPT ![e] = 0]
            /\ clientsBuilt' = [clientsBuilt EXCEPT ![e] = 0]
            /\ used' = [used EXCEPT ![e] = {}]
       ELSE /\ log' = [log EXCEPT ![e] = "unload_failed"]
            /\ pc' = [pc EXCEPT ![e] = "failed_unload"]
            /\ UNCHANGED <<outcome, built, validations, clientsBuilt, used, files, unlinkErrors,
                           hassData, hassKeys>>
    /\ UNCHANGED <<domain, runFile, runClient, created, env>>
    /\ UNCHANGED <<chatVars, toolVars, flowVars, diagVars, configVars>>

(***************************************************************************)
(* The client property of the platform entities, read by every request.    *)
(***************************************************************************)
Platforms(d) ==
    IF d = "claude" THEN {"conversation"} ELSE {"ai_task", "conversation", "stt", "tts"}

\* self.hass.data[DOMAIN][self._config_entry.entry_id]["client"]
EntityClient(e) == hassData[e].client

UseClient(e, platform) ==
    /\ pc[e] = "loaded"
    /\ platform \in Platforms(domain)
    /\ used' = [used EXCEPT ![e] = @ \cup {EntityClient(e)}]
    /\ UNCHANGED <<domain, pc, outcome, log, built, runFile, runClient, validations, clientsBuilt,
                   hassKeys, hassData, files, unlinkErrors, created, env>>
    /\ UNCHANGED <<chatVars, toolVars, flowVars, diagVars, configVars>>

(***************************************************************************)
(* setup_client of _get_location_data in the Claude subentry flow: the     *)
(* model step of a loaded entry writes the entry's credentials to a new    *)
(* temp file, points the environment variable at it and builds a client.   *)
(***************************************************************************)
LocationSetupClient(e) ==
    LET path == FreshPath IN
    /\ domain = "claude"
    /\ pc[e] = "loaded"
    /\ created < MaxFiles
    /\ clientsBuilt[e] < MaxClients
    /\ files' = files \cup {path}
    /\ created' = created + 1
    /\ env' = path
    /\ clientsBuilt' = [clientsBuilt EXCEPT ![e] = @ + 1]
    /\ UNCHANGED unlinkErrors
    /\ UNCHANGED <<domain, pc, outcome, log, built, runFile, runClient, validations, used,
                   hassKeys, hassData>>
    /\ UNCHANGED <<chatVars, toolVars, flowVars, diagVars, configVars>>

(***************************************************************************)
(* validate_input of the Claude config flow, run by the user step on the   *)
(* submitted data s: setup_client parses the string, writes a temp file    *)
(* (delete=False, never removed) and points the environment variable at   *)
(* it; json.loads raising leaves everything as it is.  The test call that  *)
(* follows changes nothing.                                                *)
(***************************************************************************)
ValidateInput(s) ==
    LET path == FreshPath IN
    /\ domain = "claude"
    /\ created < MaxFiles
    /\ IF json_loads(s).exc = "none"
       THEN /\ files' = files \cup {path}
            /\ created' = created + 1
            /\ env' = path
       ELSE UNCHANGED <<files, created, env>>
    /\ UNCHANGED <<domain, pc, outcome, log, built, runFile, runClient, validations,
                   clientsBuilt, used, hassKeys, hassData, unlinkErrors>>
    /\ UNCHANGED <<chatVars, toolVars, flowVars, diagVars, configVars>>

(***************************************************************************)
(* Conversation turns.  A chat log is a list of messages; a message has a  *)
(* content and may have a role.                                            *)
(***************************************************************************)
\* prior messages of the chat log a behaviour starts with
MaxLog == 2

Turns == {"t1", "t2"}
NoRole == "<no role>"
LogMessages == [role : {"user", "assistant", NoRole}, content : {"a", "b"}]
Logs == UNION {[1..n -> LogMessages] : n \in 0..MaxLog}
UserTexts == {"q1", "q2"}
ReplyTexts == {"r1", "r2"}

\* message.get("role", "user")
GetRole(message) == IF message.role = NoRole THEN "user" ELSE message.role

\* Claude: _convert_chat_log_to_messages
convert_chat_log_to_messages(chat_log, current_input) ==
    [i \in 1..Len(chat_log) |->
        [role |-> GetRole(chat_log[i]), content |-> chat_log[i].content]]
    \o <<[role |-> "user", content |-> current_input]>>

\* Variant: the roles of the chat log are passed on as they are
convert_chat_log_to_contents_raw(chat_log, current_input) ==
    [i \in 1..Len(chat_log) |->
        [role |-> GetRole(chat_log[i]), parts |-> <<[text |-> chat_log[i].content]>>]]
    \o <<[role |-> "user", parts |-> <<[text |-> current_input]>>]>>

\* Gemini: _convert_chat_log_to_contents; a Content has a role and a list of Parts
convert_chat_log_to_contents(chat_log, current_input) ==
    [i \in 1..Len(chat_log) |->
        [role |-> IF GetRole(chat_log[i]) = "assistant" THEN "model" ELSE "user",
         parts |-> <<[text |-> chat_log[i].content]>>]]
    \o <<[role |-> "user", parts |-> <<[text |-> current_input]>>]>>

ConvertChatLog(d, chat_log, current_input) ==
    IF d = "claude" THEN convert_chat_log_to_messages(chat_log, current_input)
    ELSE convert_chat_log_to_contents(chat_log, current_input)

\* What the vendor call does: it raises, or returns a response that carries
\* no text, or returns a response with a text
VendorResponses ==
    {[kind |-> "raise", text |-> ""], [kind |-> "no_text", text |-> ""]}
    \cup {[kind |-> "text", text |-> r] : r \in ReplyTexts}

\* Claude: response.content[0].text
first_block_text(response) ==
    IF response.kind = "text" THEN [exc |-> "none", text |-> response.text]
    ELSE [exc |-> "IndexError", text |-> ""]

\* Gemini: _extract_response_text
extract_response_text(response) ==
    IF response.kind = "text" THEN [exc |-> "none", text |-> response.text]
    ELSE [exc |-> "ValueError", text |-> ""]

\* The vendor call and the extraction of the text, inside the try block
GenerateText(d, response) ==
    IF response.kind = "raise" THEN [exc |-> "Exception", text |-> ""]
    ELSE IF d = "claude" THEN first_block_text(response)
    ELSE extract_response_text(response)

Apology == "Sorry, I encountered an error while processing your request. Please try again."

\* Variant: the except branch re-raises
ErrorResultRaised == [raised |-> TRUE, speech |-> ""]

\* The except branch of _async_handle_message: the result it returns
ErrorResult == [raised |-> FALSE, speech |-> Apology]

\* The result of _async_handle_message
TurnResult(got) ==
    IF got.exc = "none" THEN [raised |-> FALSE, speech |-> got.text] ELSE ErrorResult

\* Variant: the reply is appended before the user turn
LogAfterReplyFirst(chat_log, user_input, got) ==
    IF got.exc = "none"
    THEN chat_log \o <<[role |-> "assistant", content |-> got.text],
                       [role |-> "user", content |-> user_input]>>
    ELSE chat_log

\* Variant: the except branch appends the user turn and the apology
LogAfterWithApology(chat_log, user_input, got) ==
    chat_log \o <<[role |-> "user", content |-> user_input],
                  [role |-> "assistant",
                   content |-> IF got.exc = "none" THEN got.text ELSE Apology]>>

\* The chat log list after the try statement of _async_handle_message
LogAfter(chat_log, user_input, got) ==
    IF got.exc = "none"
    THEN chat_log \o <<[role |-> "user", content |-> user_input],
                       [role |-> "assistant", content |-> got.text]>>
    ELSE chat_log

NoResult == [raised |-> FALSE, speech |-> ""]
IdleTurn == [pc |-> "idle", msg |-> "", request |-> <<>>, shared |-> FALSE,
             own |-> <<>>, result |-> NoResult]

\* The list a turn works on: "chat_log = user_input.conversation_id or []" is
\* the caller's list unless that list is empty
TurnLog(t) == IF turn[t].shared THEN chatLog ELSE turn[t].own

\* async_process and _async_handle_message up to the await of the vendor call
TurnStart(t, msg) ==
    /\ turn[t].pc = "idle"
    /\ \E e \in Entries : pc[e] = "loaded"
    /\ turn' = [turn EXCEPT ![t] =
                   [pc |-> "called", msg |-> msg,
                    request |-> ConvertChatLog(domain, chatLog, msg),
                    shared |-> chatLog # <<>>, own |-> <<>>, result |-> NoResult]]
    /\ UNCHANGED <<chatLog, reqResult>>
    /\ UNCHANGED <<setupVars, toolVars, flowVars, diagVars, configVars>>

\* _async_handle_message from the return of the vendor call
TurnFinish(t, response) ==
    LET got == GenerateText(domain, response)
        after == LogAfter(TurnLog(t), turn[t].msg, got)
    IN
    /\ turn[t].pc = "called"
    /\ chatLog' = IF turn[t].shared THEN after ELSE chatLog
    /\ turn' = [turn EXCEPT ![t].pc = "done",
                            ![t].own = IF turn[t].shared THEN <<>> ELSE after,
                            ![t].result = TurnResult(got)]
    /\ UNCHANGED reqResult
    /\ UNCHANGED <<setupVars, toolVars, flowVars, diagVars, configVars>>

(***************************************************************************)
(* AI task, speech-to-text and text-to-speech requests of the Gemini       *)
(* integration.                                                            *)
(***************************************************************************)
NoRequest == [platform |-> "none", raised |-> FALSE,
              value |-> [key |-> "none", text |-> ""]]

Raised(platform) == [platform |-> platform, raised |-> TRUE,
                     value |-> [key |-> "none", text |-> ""]]
Returned(platform, key, text) ==
    [platform |-> platform, raised |-> FALSE, value |-> [key |-> key, text |-> text]]

\* Responses to an AI task: the call raises, the response has no candidate
\* with parts, or its first part is a text that is JSON or is not
AiResponses ==
    {[kind |-> "raise", text |-> "", json |-> FALSE],
     [kind |-> "no_candidates", text |-> "", json |-> FALSE],
     [kind |-> "text", text |-> "{\"k\": 1}", json |-> TRUE],
     [kind |-> "text", text |-> "plain", json |-> FALSE]}

\* Variant: a text that is no JSON fails the task that has a structure
generate_data_strict(structure, response) ==
    IF response.kind = "raise" THEN Raised("ai_task")
    ELSE IF response.kind = "no_candidates"
    THEN Returned("ai_task", "error", "No valid response generated")
    ELSE IF structure /\ response.json THEN Returned("ai_task", "json", response.text)
    ELSE IF structure THEN Raised("ai_task")
    ELSE Returned("ai_task", "text", response.text)

\* VertexAITaskEntity._async_generate_data: the data of the result is the
\* parsed value ("json") or the text under the key "text"
generate_data(structure, response) ==
    IF response.kind = "raise" THEN Raised("ai_task")
    ELSE IF response.kind = "no_candidates"
    THEN Returned("ai_task", "error", "No valid response generated")
    ELSE IF structure /\ response.json THEN Returned("ai_task", "json", response.text)
    ELSE Returned("ai_task", "text", response.text)

GenerateData(structure, response) ==
    /\ "ai_task" \in Platforms(domain)
    /\ \E e \in Entries : pc[e] = "loaded"
    /\ reqResult' = [structure |-> structure] @@ generate_data(structure, response)
    /\ UNCHANGED <<chatLog, turn>>
    /\ UNCHANGED <<setupVars, toolVars, flowVars, diagVars, configVars>>

\* Variant: the except branch re-raises
SttErrorRaised == Raised("stt")

\* The except branch of async_process_audio_stream: the result it returns
SttErrorResult == Returned("stt", "ERROR", "")

SttResponses == {[kind |-> "raise", text |-> ""], [kind |-> "text", text |-> "hello"]}

\* VertexAISTTEntity.async_process_audio_stream
process_audio_stream(audio_empty, response) ==
    IF audio_empty THEN Returned("stt", "ERROR", "")
    ELSE IF response.kind = "raise" THEN SttErrorResult
    ELSE Returned("stt", "SUCCESS", response.text)

ProcessAudioStream(audio_empty, response) ==
    /\ "stt" \in Platforms(domain)
    /\ \E e \in Entries : pc[e] = "loaded"
    /\ reqResult' = process_audio_stream(audio_empty, response)
    /\ UNCHANGED <<chatLog, turn>>
    /\ UNCHANGED <<setupVars, toolVars, flowVars, diagVars, configVars>>

TtsResponses == {[kind |-> "raise"], [kind |-> "no_audio"], [kind |-> "audio"]}

\* VertexAITTSEntity.async_get_tts_audio
get_tts_audio(response) ==
    IF response.kind = "audio" THEN Returned("tts", "wav", "audio") ELSE Raised("tts")

GetTtsAudio(response) ==
    /\ "tts" \in Platforms(domain)
    /\ \E e \in Entries : pc[e] = "loaded"
    /\ reqResult' = get_tts_audio(response)
    /\ UNCHANGED <<chatLog, turn>>
    /\ UNCHANGED <<setupVars, toolVars, flowVars, diagVars, configVars>>

(***************************************************************************)
(* Custom tools of the Claude integration.  The option is a YAML string:   *)
(* blank, no YAML, an empty document, a document that is no list, or a     *)
(* list of tool definitions.  A tool definition has a name, the type of    *)
(* its function and a parameters mapping whose properties are mappings     *)
(* ("mappings") or not ("scalars": a property given as a plain string).    *)
(***************************************************************************)
\* tool definitions in one YAML list
MaxTools == 3
\* steps in the sequence of one tool
MaxSteps == 3

RESERVED_NAMES == {"web_search"}
ToolNames == {"lamp", "heat"} \cup RESERVED_NAMES
ToolDefs == [name : ToolNames, type : {"script", "rest"},
             parameters : {"mappings", "scalars"}]
ToolLists == UNION {[1..n -> ToolDefs] : n \in 0..MaxTools}
ToolConfigs ==
    [kind : {"blank", "no_yaml", "mapping"}, defs : {<< >>}]
       \cup [kind : {"list"}, defs : ToolLists]

\* yaml.safe_load of the option
safe_load(yaml_config) ==
    IF yaml_config.kind = "no_yaml" THEN [exc |-> "YAMLError", value |-> << >>]
    ELSE [exc |-> "none", value |-> yaml_config.defs]

\* TOOL_SCHEMA: the function type is "script"
TOOL_SCHEMA(tool_def) == tool_def.type = "script"

\* TOOLS_SCHEMA: a list of tool definitions
TOOLS_SCHEMA(yaml_config) ==
    /\ yaml_config.kind = "list"
    /\ \A i \in 1..Len(yaml_config.defs) : TOOL_SCHEMA(yaml_config.defs[i])

\* _convert_parameters_to_schema: prop_def.get raises on a property that is
\* no mapping
convert_parameters_to_schema(parameters) ==
    IF parameters = "mappings" THEN "none" ELSE "AttributeError"

\* The CustomTool object built from the i-th definition of the list
CustomTool(i, tool_def) == [name |-> tool_def.name, definition |-> i]

\* Variant: only the reserved names are skipped
SkipToolReservedOnly(tool_name, seen_names) == tool_name \in RESERVED_NAMES

\* The two "continue" tests of the loop of parse_custom_tools
SkipTool(tool_name, seen_names) ==
    \/ tool_name \in RESERVED_NAMES
    \/ tool_name \in seen_names

\* The loop of parse_custom_tools from the i-th definition on
RECURSIVE LoadTools(_, _, _, _)
LoadTools(validated, i, seen_names, custom_tools) ==
    IF i > Len(validated) THEN [exc |-> "none", tools |-> custom_tools]
    ELSE LET tool_def == validated[i]
         IN  IF SkipTool(tool_def.name, seen_names)
             THEN LoadTools(validated, i + 1, seen_names, custom_tools)
             ELSE IF convert_parameters_to_schema(tool_def.parameters) # "none"
             THEN [exc |-> convert_parameters_to_schema(tool_def.parameters),
                   tools |-> << >>]
             ELSE LoadTools(validated, i + 1, seen_names \cup {tool_def.name},
                            Append(custom_tools, CustomTool(i, tool_def)))

\* The try block of parse_custom_tools
ParseBody(yaml_config) ==
    IF safe_load(yaml_config).exc # "none"
    THEN [exc |-> safe_load(yaml_config).exc, tools |-> << >>]
    ELSE IF yaml_config.kind = "list" /\ safe_load(yaml_config).value = << >>
    THEN [exc |-> "none", tools |-> << >>]
    ELSE IF ~TOOLS_SCHEMA(yaml_config) THEN [exc |-> "Invalid", tools |-> << >>]
    ELSE LoadTools(safe_load(yaml_config).value, 1, {}, << >>)

ToolsReturned(custom_tools, message) ==
    [parsed |-> TRUE, raised |-> FALSE, tools |-> custom_tools, log |-> message]
ToolsRaised ==
    [parsed |-> TRUE, raised |-> TRUE, tools |-> << >>, log |-> ""]
NotParsed ==
    [parsed |-> FALSE, raised |-> FALSE, tools |-> << >>, log |-> ""]

\* Variant: no handler for the exceptions that are neither YAML nor schema errors
ParseHandlersNoCatchAll(exc) ==
    IF exc = "YAMLError" THEN ToolsReturned(<< >>, "Invalid YAML in custom tools")
    ELSE IF exc = "Invalid" THEN ToolsReturned(<< >>, "Invalid custom tools schema")
    ELSE ToolsRaised

\* The except clauses of parse_custom_tools
ParseHandlers(exc) ==
    IF exc = "YAMLError" THEN ToolsReturned(<< >>, "Invalid YAML in custom tools")
    ELSE IF exc = "Invalid" THEN ToolsReturned(<< >>, "Invalid custom tools schema")
    ELSE ToolsReturned(<< >>, "Unexpected error parsing custom tools")

parse_custom_tools(yaml_config) ==
    IF yaml_config.kind = "blank" THEN ToolsReturned(<< >>, "")
    ELSE IF ParseBody(yaml_config).exc = "none"
    THEN ToolsReturned(ParseBody(yaml_config).tools, "")
    ELSE ParseHandlers(ParseBody(yaml_config).exc)

\* parse_custom_tools applied to the custom tools option
ParseCustomTools ==
    /\ ~toolsOut.parsed
    /\ toolsOut' = parse_custom_tools(toolsIn)
    /\ UNCHANGED <<toolsIn, sequence, stepNo, results, scriptPc>>
    /\ UNCHANGED <<setupVars, chatVars, flowVars, diagVars, configVars>>

(***************************************************************************)
(* CustomTool._execute_script.  A step names a service and has data and a  *)
(* target whose strings may hold templates.  A service id is a list of     *)
(* name parts and separators.                                              *)
(***************************************************************************)
ServiceIds == {<<"light", "/", "turn_on">>, <<"light", ".", "turn_on">>,
               <<"light_turn_on">>, <<"ghost", ".", "run">>}
\* hass.services: the services that are registered
Registered == {<<"light", "turn_on">>}
Steps == [service : ServiceIds, data : {"plain", "bad_template"}]
Scripts == UNION {[1..n -> Steps] : n \in 0..MaxSteps}
\* what the awaited hass.services.async_call does
CallOutcomes == {"ok", "raise", "timeout"}

\* service_full.split(sep, 1) for the separator the id contains, "/" first
SplitService(service_full) ==
    LET at(sep) == {i \in 1..Len(service_full) : service_full[i] = sep}
        first(sep) == CHOOSE i \in at(sep) : \A j \in at(sep) : i <= j
        cut(sep) == [valid |-> TRUE,
                     domain |-> SubSeq(service_full, 1, first(sep) - 1),
                     service |-> SubSeq(service_full, first(sep) + 1, Len(service_full))]
    IN  IF at("/") # {} THEN cut("/")
        ELSE IF at(".") # {} THEN cut(".")
        ELSE [valid |-> FALSE, domain |-> << >>, service |-> << >>]

\* hass.services.has_service
has_service(domain_name, service) ==
    \E r \in Registered : domain_name = <<r[1]>> /\ service = <<r[2]>>

\* CustomTool._process_templates: rendering a template may raise
process_templates(data) ==
    IF data = "bad_template" THEN "TemplateError" ELSE "none"

Skipped == [kind |-> "skip"]
StepRaised == [kind |-> "raise"]
Recorded(result) == [kind |-> "record", result |-> result]

\* Variant: only the timeout of a service call is handled
CallHandlersTimeoutOnly(service_full, call) ==
    IF call = "ok" THEN Recorded([service |-> service_full, success |-> TRUE])
    ELSE IF call = "timeout"
    THEN Recorded([service |-> service_full, success |-> FALSE,
                   error |-> "Service call timed out"])
    ELSE StepRaised

\* The try statement around the service call
CallHandlers(service_full, call) ==
    IF call = "ok" THEN Recorded([service |-> service_full, success |-> TRUE])
    ELSE IF call = "timeout"
    THEN Recorded([service |-> service_full, success |-> FALSE,
                   error |-> "Service call timed out"])
    ELSE Recorded([service |-> service_full, success |-> FALSE, error |-> "str(err)"])

\* One pass of the loop of _execute_script
execute_step(step, call) ==
    LET parts == SplitService(step.service)
    IN  IF ~parts.valid THEN Skipped
        ELSE IF ~has_service(parts.domain, parts.service)
        THEN Recorded([service |-> step.service, success |-> FALSE,
                       error |-> "Service does not exist"])
        ELSE IF process_templates(step.data) # "none" THEN StepRaised
        ELSE CallHandlers(step.service, call)

\* CustomTool.async_call of a script tool, up to the loop
AsyncCall ==
    /\ toolsOut.tools # << >>
    /\ scriptPc # "running"
    /\ scriptPc' = "running"
    /\ stepNo' = 1
    /\ results' = << >>
    /\ UNCHANGED <<toolsIn, toolsOut, sequence>>
    /\ UNCHANGED <<setupVars, chatVars, flowVars, diagVars, configVars>>

\* One pass of the loop
ExecuteStep(call) ==
    /\ scriptPc = "running"
    /\ stepNo <= Len(sequence)
    /\ LET done == execute_step(sequence[stepNo], call)
       IN  /\ results' = IF done.kind = "record" THEN Append(results, done.result)
                         ELSE results
           /\ IF done.kind = "raise"
              THEN scriptPc' = "raised" /\ UNCHANGED stepNo
              ELSE stepNo' = stepNo + 1 /\ UNCHANGED scriptPc
    /\ UNCHANGED <<toolsIn, toolsOut, sequence>>
    /\ UNCHANGED <<setupVars, chatVars, flowVars, diagVars, configVars>>

\* return {"results": results}
ScriptReturn ==
    /\ scriptPc = "running"
    /\ stepNo > Len(sequence)
    /\ scriptPc' = "returned"
    /\ UNCHANGED <<toolsIn, toolsOut, sequence, stepNo, results>>
    /\ UNCHANGED <<setupVars, chatVars, flowVars, diagVars, configVars>>

NoConfig == [kind |-> "blank", defs |-> << >>]
ToolsIdle ==
    /\ toolsIn = NoConfig
    /\ toolsOut = NotParsed
    /\ sequence = << >>
    /\ stepNo = 0
    /\ results = << >>
    /\ scriptPc = "idle"

(***************************************************************************)
(* The subentry flow of the Claude integration                             *)
(* (ConversationSubentryFlowHandler).  Options, user input and subentry    *)
(* data are dictionaries: functions from keys to values.  A model name is  *)
(* the list of the parts of its name ("claude-3-haiku" is                  *)
(* <<"claude", "3", "haiku">>), so that startswith is the prefix test.     *)
(* The numeric fields max_tokens, temperature and web_search_max_uses and  *)
(* the llm_hass_api selection are carried like the other values and are    *)
(* left out.                                                               *)
(***************************************************************************)
CONF_NAME == "name"
CONF_PROMPT == "prompt"
CONF_RECOMMENDED == "recommended"
CONF_CHAT_MODEL == "chat_model"
CONF_THINKING_BUDGET == "thinking_budget"
CONF_WEB_SEARCH == "web_search"
CONF_WEB_SEARCH_USER_LOCATION == "user_location"
CONF_WEB_SEARCH_CITY == "city"
CONF_WEB_SEARCH_REGION == "region"
CONF_WEB_SEARCH_COUNTRY == "country"
CONF_WEB_SEARCH_TIMEZONE == "timezone"

\* the model names the flow is run with
ChatModels == {<<"claude", "sonnet", "4">>, <<"claude", "3", "5", "haiku">>,
               <<"claude", "3", "haiku">>}
\* the prefix lists of .const
NON_THINKING_MODELS == {<<"claude", "3", "5">>, <<"claude", "3", "haiku">>}
WEB_SEARCH_UNSUPPORTED_MODELS == {<<"claude", "3", "haiku">>}
\* DEFAULT of .const, for the keys read with a default
DEFAULT == (CONF_WEB_SEARCH :> FALSE) @@ (CONF_WEB_SEARCH_USER_LOCATION :> FALSE)

DEFAULT_CONVERSATION_OPTIONS == (CONF_RECOMMENDED :> TRUE) @@ (CONF_PROMPT :> "instructions")
DEFAULT_AI_TASK_OPTIONS == (CONF_RECOMMENDED :> TRUE)

\* dict.update, dict.pop(key, None) for a set of keys, dict.get(key, default)
Update(d, other) == other @@ d
Pop(d, keys) == [k \in DOMAIN d \ keys |-> d[k]]
Get(d, key, default) == IF key \in DOMAIN d THEN d[key] ELSE default

\* model.startswith(tuple(prefixes))
startswith(model, prefixes) ==
    \E p \in prefixes : Len(p) <= Len(model) /\ SubSeq(model, 1, Len(p)) = p

SubentryTypes == {"conversation", "ai_task_data"}

NoFlow == [source |-> "none", subentry_type |-> "conversation", reconfigured |-> << >>,
           options |-> << >>,
           step |-> "none", entered |-> << >>, fields |-> {}, input |-> << >>,
           result |-> "none", data |-> << >>, lookup |-> FALSE]

\* A step function has been called: entered lists the steps in the order in
\* which the flow came to them
Enter(f, step_id) ==
    [f EXCEPT !.entered = IF @ # << >> /\ @[Len(@)] = step_id THEN @
                          ELSE Append(@, step_id)]

\* async_show_form
ShowForm(f, step_id, schema) == [f EXCEPT !.step = step_id, !.fields = schema]

\* async_abort
Abort(f) == [f EXCEPT !.step = "none", !.result = "abort"]

\* async_create_entry of a new subentry (the name becomes the title),
\* async_update_and_abort of the subentry that is reconfigured
Finish(f, data) ==
    IF f.source = "user"
    THEN [f EXCEPT !.step = "none", !.result = "create_entry",
                   !.data = Pop(data, {CONF_NAME})]
    ELSE [f EXCEPT !.step = "none", !.result = "update", !.data = data]

\* step_schema of async_step_init
InitSchema(f) ==
    (IF f.source = "user" THEN {CONF_NAME} ELSE {})
       \cup (IF f.subentry_type = "conversation" THEN {CONF_PROMPT} ELSE {})
       \cup {CONF_RECOMMENDED}

\* step_schema of async_step_advanced
AdvancedSchema == {CONF_CHAT_MODEL}

ThinkingFields == {CONF_THINKING_BUDGET}
WebSearchFields == {CONF_WEB_SEARCH, CONF_WEB_SEARCH_USER_LOCATION}
LocationKeys == {CONF_WEB_SEARCH_CITY, CONF_WEB_SEARCH_REGION,
                 CONF_WEB_SEARCH_COUNTRY, CONF_WEB_SEARCH_TIMEZONE}

\* Variant: the web search fields are offered for every model
ModelSchemaWebAlways(model) ==
    (IF ~startswith(model, NON_THINKING_MODELS) THEN ThinkingFields ELSE {})
       \cup WebSearchFields

\* step_schema of async_step_model
ModelSchema(model) ==
    (IF ~startswith(model, NON_THINKING_MODELS) THEN ThinkingFields ELSE {})
       \cup (IF ~startswith(model, WEB_SEARCH_UNSUPPORTED_MODELS)
             THEN WebSearchFields ELSE {})

\* Variant: the stored location keys are kept
ModelPopsKeepLocation(model) ==
    (ThinkingFields \cup WebSearchFields) \ ModelSchema(model)

\* The keys async_step_model pops from the options
ModelPops(model) ==
    ((ThinkingFields \cup WebSearchFields) \ ModelSchema(model)) \cup LocationKeys

\* The values a form field takes
FieldValues(key) ==
    IF key \in {CONF_RECOMMENDED, CONF_WEB_SEARCH, CONF_WEB_SEARCH_USER_LOCATION}
    THEN BOOLEAN
    ELSE IF key = CONF_CHAT_MODEL THEN ChatModels
    ELSE IF key = CONF_THINKING_BUDGET THEN {"1024"}
    ELSE IF key = CONF_NAME THEN {"Claude"}
    ELSE {"text"}

\* The inputs a form with the schema accepts
RECURSIVE UserInputs(_)
UserInputs(schema) ==
    IF schema = {} THEN {<< >>}
    ELSE LET key == CHOOSE k \in schema : TRUE
         IN  {(key :> v) @@ d : v \in FieldValues(key), d \in UserInputs(schema \ {key})}

\* _get_location_data: city and region when zone.home exists, the country
\* when the host has one, the time zone always
get_location_data(zone_home, country) ==
    (IF zone_home
     THEN (CONF_WEB_SEARCH_CITY :> "text") @@ (CONF_WEB_SEARCH_REGION :> "text")
     ELSE << >>)
       @@ (IF country THEN (CONF_WEB_SEARCH_COUNTRY :> "text") ELSE << >>)
       @@ (CONF_WEB_SEARCH_TIMEZONE :> "text")

\* if user_input.get(CONF_WEB_SEARCH, ...): if user_input.get(
\* CONF_WEB_SEARCH_USER_LOCATION, ...)
WantsLocation(user_input) ==
    /\ Get(user_input, CONF_WEB_SEARCH, DEFAULT[CONF_WEB_SEARCH])
    /\ Get(user_input, CONF_WEB_SEARCH_USER_LOCATION,
           DEFAULT[CONF_WEB_SEARCH_USER_LOCATION])

\* async_step_model; submitted: user_input is not None
async_step_model(f, submitted, user_input, location_data) ==
    LET model == f.options[CONF_CHAT_MODEL]
        step_schema == ModelSchema(model)
        options == Pop(f.options, ModelPops(model))
        given == submitted \/ step_schema = {}
        input == IF step_schema = {} THEN << >> ELSE user_input
        lookup == given /\ WantsLocation(input)
        updated == Update(options,
                          IF lookup THEN Update(input, location_data) ELSE input)
        g == Enter(f, "model")
    IN  IF given
        THEN Finish([g EXCEPT !.options = updated, !.input = input, !.lookup = lookup],
                    updated)
        ELSE ShowForm([g EXCEPT !.options = options], "model", step_schema)

\* Variant: the submitted advanced step shows the init step again
async_step_advanced_again(f, submitted, user_input) ==
    LET g == Enter(f, "advanced")
    IN  IF submitted
        THEN ShowForm(Enter([g EXCEPT !.options = Update(@, user_input)], "init"),
                      "init", InitSchema(f))
        ELSE ShowForm(g, "advanced", AdvancedSchema)

\* async_step_advanced
async_step_advanced(f, submitted, user_input) ==
    LET g == Enter(f, "advanced")
    IN  IF submitted
        THEN async_step_model([g EXCEPT !.options = Update(@, user_input)],
                              FALSE, << >>, << >>)
        ELSE ShowForm(g, "advanced", AdvancedSchema)

\* Variant: the Recommended toggle is not looked at
async_step_init_all_steps(f, loaded, submitted, user_input) ==
    LET g == Enter(f, "init")
    IN  IF ~loaded THEN Abort(g)
        ELSE IF ~submitted THEN ShowForm(g, "init", InitSchema(f))
        ELSE async_step_advanced([g EXCEPT !.options = Update(@, user_input),
                                           !.input = user_input],
                                 FALSE, << >>)

\* async_step_init; loaded: the state of the config entry is LOADED
async_step_init(f, loaded, submitted, user_input) ==
    LET g == Enter(f, "init")
    IN  IF ~loaded THEN Abort(g)
        ELSE IF ~submitted THEN ShowForm(g, "init", InitSchema(f))
        ELSE IF user_input[CONF_RECOMMENDED]
        THEN Finish([g EXCEPT !.input = user_input], user_input)
        ELSE async_step_advanced([g EXCEPT !.options = Update(@, user_input),
                                           !.input = user_input],
                                 FALSE, << >>)

\* async_step_user, async_step_reconfigure
async_step_start(source, subentry_type, stored, loaded) ==
    async_step_init([NoFlow EXCEPT !.source = source,
                                   !.subentry_type = subentry_type,
                                   !.reconfigured = IF source = "reconfigure" THEN stored
                                                    ELSE << >>,
                                   !.options = IF source = "reconfigure" THEN stored
                                               ELSE IF subentry_type = "ai_task_data"
                                               THEN DEFAULT_AI_TASK_OPTIONS
                                               ELSE DEFAULT_CONVERSATION_OPTIONS],
                    loaded, FALSE, << >>)

\* The subentries the flow is run on
StoredSubentries ==
    {[subentry_type |-> "conversation", data |-> DEFAULT_CONVERSATION_OPTIONS],
     [subentry_type |-> "ai_task_data", data |-> DEFAULT_AI_TASK_OPTIONS],
     [subentry_type |-> "conversation",
      data |-> (CONF_RECOMMENDED :> FALSE) @@ (CONF_PROMPT :> "text")
                  @@ (CONF_CHAT_MODEL :> <<"claude", "sonnet", "4">>)
                  @@ (CONF_THINKING_BUDGET :> "1024")
                  @@ (CONF_WEB_SEARCH :> TRUE) @@ (CONF_WEB_SEARCH_USER_LOCATION :> TRUE)
                  @@ get_location_data(TRUE, TRUE)]}

\* The subentry the flow has created or updated
Saved(f) ==
    IF f.result \in {"create_entry", "update"}
    THEN [subentry_type |-> f.subentry_type, data |-> f.data]
    ELSE subentry

\* The user adds a subentry or reconfigures the stored one
FlowStart(e, source, subentry_type) ==
    /\ domain = "claude"
    /\ flow.step = "none"
    /\ source = "reconfigure" => subentry_type = subentry.subentry_type
    /\ flow' = async_step_start(source, subentry_type, subentry.data, pc[e] = "loaded")
    /\ UNCHANGED subentry
    /\ UNCHANGED <<setupVars, chatVars, toolVars, diagVars, configVars>>

\* The user submits the init form
FlowSubmitInit(e, user_input) ==
    /\ flow.step = "init"
    /\ user_input \in UserInputs(flow.fields)
    /\ flow' = async_step_init(flow, pc[e] = "loaded", TRUE, user_input)
    /\ subentry' = Saved(flow')
    /\ UNCHANGED <<setupVars, chatVars, toolVars, diagVars, configVars>>

\* The user submits the advanced form
FlowSubmitAdvanced(user_input) ==
    /\ flow.step = "advanced"
    /\ user_input \in UserInputs(flow.fields)
    /\ flow' = async_step_advanced(flow, TRUE, user_input)
    /\ subentry' = Saved(flow')
    /\ UNCHANGED <<setupVars, chatVars, toolVars, diagVars, configVars>>

\* The user submits the model form; setup_client of _get_location_data runs
\* when the location is looked up and zone.home exists
FlowSubmitModel(e, user_input, zone_home, country) ==
    /\ flow.step = "model"
    /\ user_input \in UserInputs(flow.fields)
    /\ flow' = async_step_model(flow, TRUE, user_input,
                                get_location_data(zone_home, country))
    /\ subentry' = Saved(flow')
    /\ IF flow'.lookup /\ zone_home
       THEN /\ created < MaxFiles
            /\ clientsBuilt[e] < MaxClients
            /\ files' = files \cup {FreshPath}
            /\ created' = created + 1
            /\ env' = FreshPath
            /\ clientsBuilt' = [clientsBuilt EXCEPT ![e] = @ + 1]
       ELSE UNCHANGED <<files, created, env, clientsBuilt>>
    /\ UNCHANGED <<domain, pc, outcome, log, built, runFile, runClient, validations, used,
                   hassKeys, hassData, unlinkErrors>>
    /\ UNCHANGED <<chatVars, toolVars, diagVars, configVars>>

FlowIdle ==
    /\ flow = NoFlow
    /\ subentry = [subentry_type |-> "conversation", data |-> DEFAULT_CONVERSATION_OPTIONS]

(***************************************************************************)
(* Diagnostics of a config entry of the Claude integration.  The entry     *)
(* data holds the project, the location and the credential the config      *)
(* flow stored after json.loads accepted it; the integration has no         *)
(* options flow.  runtime_data is whatever the entry carries: nothing, an  *)
(* object without subentries, or an object with a list of subentries.      *)
(***************************************************************************)
\* subentries listed in runtime_data
MaxSubentries == 2

CONF_PROJECT_ID == "project_id"
CONF_LOCATION == "location"
CONF_SERVICE_ACCOUNT_JSON == "service_account_json"
TO_REDACT == {CONF_SERVICE_ACCOUNT_JSON}
REDACTED == "**REDACTED**"

DiagCredentials == {"{key-1}", "{key-2}"}

\* The data of a subentry: with or without a copy of the credential
DiagSubentries(credential) ==
    [type : SubentryTypes,
     data : {(CONF_PROMPT :> "text"),
             (CONF_PROMPT :> "text") @@ (CONF_SERVICE_ACCOUNT_JSON :> credential)}]

DiagRuntimeData(credential) ==
    [kind : {"none", "plain"}, subentries : {<< >>}]
       \cup [kind : {"subentries"},
             subentries : UNION {[1..n -> DiagSubentries(credential)] :
                                    n \in 0..MaxSubentries}]

\* The config entries that hold the credential
DiagEntriesOf(credential) ==
    [title : {"Claude Vertex AI"},
     data : {(CONF_PROJECT_ID :> project) @@ (CONF_LOCATION :> "us-east5")
                @@ (CONF_SERVICE_ACCOUNT_JSON :> credential) :
                project \in {"project-1", "project-2"}},
     options : {<< >>},
     runtime_data : DiagRuntimeData(credential)]

DiagEntries == UNION {DiagEntriesOf(credential) : credential \in DiagCredentials}

\* Variant: nothing is redacted
async_redact_data_nothing(data, to_redact) == data

\* homeassistant.components.diagnostics.async_redact_data on a dictionary of
\* plain values: the value of a key to redact is replaced unless it is empty
async_redact_data(data, to_redact) ==
    [key \in DOMAIN data |->
        IF key \in to_redact /\ data[key] # "" THEN REDACTED ELSE data[key]]

async_get_config_entry_diagnostics(entry) ==
    LET diagnostics_data ==
            [entry |-> [title |-> entry.title,
                        data |-> async_redact_data(entry.data, TO_REDACT),
                        options |-> entry.options]]
        subentries_info ==
            [i \in 1..Len(entry.runtime_data.subentries) |->
                [type |-> entry.runtime_data.subentries[i].type,
                 data |-> async_redact_data(entry.runtime_data.subentries[i].data,
                                            TO_REDACT)]]
    IN  IF entry.runtime_data.kind = "subentries"
        THEN diagnostics_data @@ [subentries |-> subentries_info]
        ELSE diagnostics_data

NotExported == [done |-> FALSE, export |-> << >>]

\* The diagnostics of the entry are downloaded
GetDiagnostics ==
    /\ ~diagOut.done
    /\ diagOut' = [done |-> TRUE, export |-> async_get_config_entry_diagnostics(diagEntry)]
    /\ UNCHANGED diagEntry
    /\ UNCHANGED <<setupVars, chatVars, toolVars, flowVars, configVars>>

DiagIdle ==
    /\ diagEntry = CHOOSE entry \in DiagEntries : entry.runtime_data.kind = "none"
    /\ diagOut = NotExported

(***************************************************************************)
(* Config flow of the Gemini integration: the user step, which creates a   *)
(* config entry, and the reauth step, which replaces the credential of     *)
(* one.  A config entry is known by its unique id, the project id.         *)
(***************************************************************************)
ERROR_INVALID_JSON == "invalid_json"
ERROR_MISSING_FIELDS == "missing_fields"
ERROR_INVALID_TYPE == "invalid_type"
ERROR_CONNECTION_FAILED == "connection_failed"
REQUIRED_SERVICE_ACCOUNT_FIELDS == {"type", "project_id", "private_key", "client_email"}

Projects == {"p1", "p2"}
Locations == {"us-central1", "europe-west1"}

\* The members a submitted JSON object may have beside "type": all of them,
\* all but one, or none
ConfigKeys == {"project_id", "private_key", "client_email", "token_uri"}
ConfigKeySets == {ConfigKeys, {}} \cup {ConfigKeys \ {k} : k \in ConfigKeys}

\* The strings typed into the service_account_json field: a text that is no
\* JSON, a JSON array, JSON objects, and two service-account keys (id)
ConfigStrings ==
    {[wf |-> FALSE, shape |-> "text", type |-> NoType, keys |-> {}, id |-> 1],
     [wf |-> TRUE, shape |-> "array", type |-> NoType, keys |-> {}, id |-> 1],
     [wf |-> TRUE, shape |-> "object", type |-> "service_account", keys |-> ConfigKeys,
      id |-> 2]}
    \cup {[wf |-> TRUE, shape |-> "object", type |-> t, keys |-> k, id |-> 1] :
             t \in {NoType, "service_account", "authorized_user"}, k \in ConfigKeySets}

\* user_input of the two forms
ConfigInputs ==
    [project_id : Projects, location : Locations, service_account_json : ConfigStrings]

\* what list(client.models.list(page_size=1)) does
ListOutcomes == {"ok", "raise"}

\* "field in service_account_info"
Members(info) == info.keys \cup (IF info.type # NoType THEN {"type"} ELSE {})

NoClientArgs == [project |-> "", location |-> ""]
Invalid(error) ==
    [valid |-> FALSE, error |-> error, listed |-> FALSE, client |-> NoClientArgs]

\* Variant: the type is verified before the required fields are looked for
validate_input_type_first(user_input, listing) ==
    LET loaded == json_loads(user_input.service_account_json)
        info == loaded.value
    IN  IF loaded.exc # "none" THEN Invalid(ERROR_INVALID_JSON)
        ELSE IF info.shape # "object" THEN Invalid(ERROR_INVALID_JSON)
        ELSE IF info.type # "service_account" THEN Invalid(ERROR_INVALID_TYPE)
        ELSE IF ~(REQUIRED_SERVICE_ACCOUNT_FIELDS \subseteq Members(info))
        THEN Invalid(ERROR_MISSING_FIELDS)
        ELSE IF from_service_account_info(info).exc # "none"
        THEN Invalid(ERROR_CONNECTION_FAILED)
        ELSE [valid |-> listing = "ok",
              error |-> IF listing = "ok" THEN "" ELSE ERROR_CONNECTION_FAILED,
              listed |-> TRUE,
              client |-> [project |-> user_input.project_id,
                          location |-> user_input.location]]

\* VertexAIConfigFlow._validate_input: the dict it returns, whether the list
\* call was made, and the project and location genai.Client was given
validate_input(user_input, listing) ==
    LET loaded == json_loads(user_input.service_account_json)
        info == loaded.value
    IN  IF loaded.exc # "none" THEN Invalid(ERROR_INVALID_JSON)
        ELSE IF info.shape # "object" THEN Invalid(ERROR_INVALID_JSON)
        ELSE IF ~(REQUIRED_SERVICE_ACCOUNT_FIELDS \subseteq Members(info))
        THEN Invalid(ERROR_MISSING_FIELDS)
        ELSE IF info.type # "service_account" THEN Invalid(ERROR_INVALID_TYPE)
        ELSE IF from_service_account_info(info).exc # "none"
        THEN Invalid(ERROR_CONNECTION_FAILED)
        ELSE [valid |-> listing = "ok",
              error |-> IF listing = "ok" THEN "" ELSE ERROR_CONNECTION_FAILED,
              listed |-> TRUE,
              client |-> [project |-> user_input.project_id,
                          location |-> user_input.location]]

NoString == [wf |-> FALSE, shape |-> "none", type |-> NoType, keys |-> {}, id |-> 0]
NoInput == [project_id |-> "", location |-> "", service_account_json |-> NoString]
NoConfigEntry == [present |-> FALSE, data |-> NoInput]
NotValidated == Invalid("")
NoConfigFlow ==
    [source |-> "none", step |-> "none", reauth_entry |-> "", input |-> NoInput,
     validation |-> NotValidated, errors |-> "", result |-> "none"]

\* async_step_user(None): the form is shown
StepUser ==
    /\ domain = "gemini"
    /\ configFlow.step \in {"none", "done"}
    /\ configFlow' = [NoConfigFlow EXCEPT !.source = "user", !.step = "user",
                                          !.result = "form"]
    /\ UNCHANGED configEntries
    /\ UNCHANGED <<setupVars, chatVars, toolVars, flowVars, diagVars>>

\* async_step_user(user_input)
StepUserSubmit(user_input, listing) ==
    LET validation_result == validate_input(user_input, listing)
        unique_id == user_input.project_id
        submitted == [configFlow EXCEPT !.input = user_input,
                                        !.validation = validation_result]
    IN
    /\ configFlow.step = "user"
    /\ IF validation_result.valid
       THEN IF configEntries[unique_id].present
            THEN \* _abort_if_unique_id_configured
                 /\ configFlow' = [submitted EXCEPT !.step = "done", !.errors = "",
                                                    !.result = "abort"]
                 /\ UNCHANGED configEntries
            ELSE \* async_create_entry(data=user_input)
                 /\ configFlow' = [submitted EXCEPT !.step = "done", !.errors = "",
                                                    !.result = "create_entry"]
                 /\ configEntries' = [configEntries EXCEPT ![unique_id] =
                                         [present |-> TRUE, data |-> user_input]]
       ELSE /\ configFlow' = [submitted EXCEPT !.errors = validation_result.error,
                                               !.result = "form"]
            /\ UNCHANGED configEntries
    /\ UNCHANGED <<setupVars, chatVars, toolVars, flowVars, diagVars>>

\* async_step_reauth for the entry of context["entry_id"], which goes on to
\* async_step_reauth_confirm(None): the form is shown
StepReauth(entry_id) ==
    /\ domain = "gemini"
    /\ configFlow.step \in {"none", "done"}
    /\ configEntries[entry_id].present
    /\ configFlow' = [NoConfigFlow EXCEPT !.source = "reauth", !.step = "reauth_confirm",
                                          !.reauth_entry = entry_id, !.result = "form"]
    /\ UNCHANGED configEntries
    /\ UNCHANGED <<setupVars, chatVars, toolVars, flowVars, diagVars>>

\* async_step_reauth_confirm(user_input)
StepReauthConfirm(user_input, listing) ==
    LET validation_result == validate_input(user_input, listing)
        reauth_entry == configFlow.reauth_entry
        submitted == [configFlow EXCEPT !.input = user_input,
                                        !.validation = validation_result]
    IN
    /\ configFlow.step = "reauth_confirm"
    /\ IF validation_result.valid
       THEN \* async_update_reload_and_abort(entry, data={**entry.data, ...})
            /\ configFlow' = [submitted EXCEPT !.step = "done", !.errors = "",
                                               !.result = "reauth_successful"]
            /\ configEntries' =
                  [configEntries EXCEPT ![reauth_entry].data.service_account_json =
                                            user_input.service_account_json]
       ELSE /\ configFlow' = [submitted EXCEPT !.errors = validation_result.error,
                                               !.result = "form"]
            /\ UNCHANGED configEntries
    /\ UNCHANGED <<setupVars, chatVars, toolVars, flowVars, diagVars>>

ConfigIdle ==
    /\ configFlow = NoConfigFlow
    /\ configEntries = [p \in Projects |-> NoConfigEntry]

(***************************************************************************)
(* Specification of the entry life cycle                                   *)
(***************************************************************************)
\* No request is running
ChatIdle ==
    /\ chatLog = <<>>
    /\ turn = [t \in Turns |-> IdleTurn]
    /\ reqResult = NoRequest

InitSetup ==
    /\ domain \in Domains
    /\ pc = [e \in Entries |-> "idle"]
    /\ outcome = [e \in Entries |-> "none"]
    /\ log = [e \in Entries |-> ""]
    /\ built = [e \in Entries |-> "none"]
    /\ runFile = [e \in Entries |-> NoPath]
    /\ runClient = [e \in Entries |-> NoClient]
    /\ validations = [e \in Entries |-> 0]
    /\ clientsBuilt = [e \in Entries |-> 0]
    /\ used = [e \in Entries |-> {}]
    /\ hassKeys = {}
    /\ hassData = [e \in Entries |-> NoData]
    /\ files = {}
    /\ unlinkErrors = {}
    /\ created = 0
    /\ env = NoPath
    /\ ChatIdle
    /\ ToolsIdle
    /\ FlowIdle
    /\ DiagIdle
    /\ ConfigIdle

SetupSteps(e, creds) ==
    \/ \E s \in creds : SetupBegin(e, s, "ok", "none", TRUE)
    \/ \E s \in creds, prep \in PrepFailures(domain), ok \in BOOLEAN :
          \E exc \in PrepExceptions(prep) :
             /\ BuildCredentials(domain, s).exc = "none"
             /\ SetupBegin(e, s, prep, exc, ok)
    \/ \E result \in ValidationResults, ok \in BOOLEAN : SetupValidated(e, result, ok)
    \/ SetupForwarded(e)

UnloadSteps(e) ==
    \/ UnloadBegin(e)
    \/ \E unload_ok \in BOOLEAN, ok \in BOOLEAN : UnloadFinish(e, unload_ok, ok)

NextSetup ==
    \E e \in Entries :
        \/ SetupSteps(e, SampleCreds)
        \/ UnloadSteps(e)
        \/ \E p \in Platforms(domain) : UseClient(e, p)
        \/ LocationSetupClient(e)

SpecSetup == InitSetup /\ [][NextSetup]_vars

(***************************************************************************)
(* Specification of credential resolution: setup and unload of one entry,  *)
(* over every credential string.                                           *)
(***************************************************************************)
\* The entry that is followed
CredEntry == CHOOSE e \in Entries : \A o \in Entries : e <= o

NextCred ==
    \/ SetupSteps(CredEntry, CredStrings)
    \/ UnloadSteps(CredEntry)

SpecCred == InitSetup /\ [][NextCred]_vars

(***************************************************************************)
(* Specification of the credentials files: setups of the entries from a    *)
(* string that gives credentials, unloads, the location lookup of the subentry    *)
(* flow and the validation of the config flow.                             *)
(***************************************************************************)
BuildableCreds ==
    {s \in SampleCreds : BuildCredentials("claude", s).exc = "none"}

NextFiles ==
    \/ \E e \in Entries :
          \/ SetupSteps(e, BuildableCreds)
          \/ UnloadSteps(e)
          \/ LocationSetupClient(e)
    \/ \E s \in SampleCreds : ValidateInput(s)

SpecFiles == InitSetup /\ [][NextFiles]_vars

(***************************************************************************)
(* Specifications of the request path.  They start when every entry has    *)
(* been set up from service-account credentials and its platforms have     *)
(* been loaded, one entry after the other.                                 *)
(***************************************************************************)
EntriesLoaded ==
    /\ domain \in Domains
    /\ pc = [e \in Entries |-> "loaded"]
    /\ outcome = [e \in Entries |-> "True"]
    /\ log = [e \in Entries |-> ""]
    /\ built = [e \in Entries |-> "service_account"]
    /\ runFile = [e \in Entries |-> IF domain = "claude" THEN e ELSE NoPath]
    /\ runClient = [e \in Entries |-> NoClient]
    /\ validations = [e \in Entries |-> 1]
    /\ clientsBuilt = [e \in Entries |-> 1]
    /\ used = [e \in Entries |-> {}]
    /\ hassKeys = {domain}
    /\ hassData = [e \in Entries |->
                      [present |-> TRUE, client |-> 1, credentials |-> "service_account",
                       credentials_path |-> IF domain = "claude" THEN e ELSE NoPath]]
    /\ files = IF domain = "claude" THEN Entries ELSE {}
    /\ unlinkErrors = {}
    /\ created = IF domain = "claude" THEN MaxEntries ELSE 0
    /\ env = IF domain = "claude" THEN MaxEntries ELSE NoPath

InitChat ==
    /\ EntriesLoaded
    /\ chatLog \in Logs
    /\ turn = [t \in Turns |-> IdleTurn]
    /\ reqResult = NoRequest
    /\ ToolsIdle
    /\ FlowIdle
    /\ DiagIdle
    /\ ConfigIdle

NextChat ==
    \E t \in Turns :
        \/ \E msg \in UserTexts : TurnStart(t, msg)
        \/ \E response \in VendorResponses : TurnFinish(t, response)

SpecChat == InitChat /\ [][NextChat]_vars

InitRequest ==
    /\ EntriesLoaded
    /\ chatLog \in {l \in Logs : Len(l) <= 1}
    /\ turn = [t \in Turns |-> IdleTurn]
    /\ reqResult = NoRequest
    /\ ToolsIdle
    /\ FlowIdle
    /\ DiagIdle
    /\ ConfigIdle

NextRequest ==
    \/ \E t \in Turns :
          \/ \E msg \in UserTexts : TurnStart(t, msg)
          \/ \E response \in VendorResponses : TurnFinish(t, response)
    \/ \E structure \in BOOLEAN, response \in AiResponses : GenerateData(structure, response)
    \/ \E audio_empty \in BOOLEAN, response \in SttResponses :
          ProcessAudioStream(audio_empty, response)
    \/ \E response \in TtsResponses : GetTtsAudio(response)

SpecRequest == InitRequest /\ [][NextRequest]_vars

(***************************************************************************)
(* Specifications of the custom tools of a loaded Claude entry: the        *)
(* option is parsed (SpecTools); a loaded tool is called (SpecScript).     *)
(***************************************************************************)
InitTools ==
    /\ EntriesLoaded
    /\ domain = "claude"
    /\ ChatIdle
    /\ toolsIn \in ToolConfigs
    /\ toolsOut = NotParsed
    /\ sequence = << >>
    /\ stepNo = 0
    /\ results = << >>
    /\ scriptPc = "idle"
    /\ FlowIdle
    /\ DiagIdle
    /\ ConfigIdle

NextTools == ParseCustomTools

SpecTools == InitTools /\ [][NextTools]_vars

\* The option that defines the tool that is called
OneTool ==
    [kind |-> "list",
     defs |-> <<[name |-> "lamp", type |-> "script", parameters |-> "mappings"]>>]

InitScript ==
    /\ EntriesLoaded
    /\ domain = "claude"
    /\ ChatIdle
    /\ toolsIn = OneTool
    /\ toolsOut = parse_custom_tools(OneTool)
    /\ sequence \in Scripts
    /\ stepNo = 0
    /\ results = << >>
    /\ scriptPc = "idle"
    /\ FlowIdle
    /\ DiagIdle
    /\ ConfigIdle

NextScript ==
    \/ AsyncCall
    \/ \E call \in CallOutcomes : ExecuteStep(call)
    \/ ScriptReturn

SpecScript == InitScript /\ [][NextScript]_vars

(***************************************************************************)
(* Specification of the subentry flow of a Claude entry that has been      *)
(* loaded and may be unloaded while a flow is open.                        *)
(***************************************************************************)
InitFlow ==
    /\ EntriesLoaded
    /\ domain = "claude"
    /\ ChatIdle
    /\ ToolsIdle
    /\ flow = NoFlow
    /\ subentry \in StoredSubentries
    /\ DiagIdle
    /\ ConfigIdle

NextFlow ==
    \/ \E source \in {"user", "reconfigure"}, subentry_type \in SubentryTypes :
          FlowStart(CredEntry, source, subentry_type)
    \/ \E user_input \in UserInputs(flow.fields) : FlowSubmitInit(CredEntry, user_input)
    \/ \E user_input \in UserInputs(flow.fields) : FlowSubmitAdvanced(user_input)
    \/ \E user_input \in UserInputs(flow.fields), zone_home \in BOOLEAN,
          country \in BOOLEAN :
          FlowSubmitModel(CredEntry, user_input, zone_home, country)
    \/ UnloadSteps(CredEntry)

SpecFlow == InitFlow /\ [][NextFlow]_vars

(***************************************************************************)
(* Specification of the diagnostics of a loaded Claude entry               *)
(***************************************************************************)
InitDiag ==
    /\ EntriesLoaded
    /\ domain = "claude"
    /\ ChatIdle
    /\ ToolsIdle
    /\ FlowIdle
    /\ ConfigIdle
    /\ diagEntry \in DiagEntries
    /\ diagOut = NotExported

NextDiag == GetDiagnostics

SpecDiag == InitDiag /\ [][NextDiag]_vars

(***************************************************************************)
(* Specification of the Gemini config flow: user flows and reauth flows,   *)
(* one after the other, from the state with no config entry.               *)
(***************************************************************************)
NextConfig ==
    \/ StepUser
    \/ \E user_input \in ConfigInputs, listing \in ListOutcomes :
          StepUserSubmit(user_input, listing)
    \/ \E entry_id \in Projects : StepReauth(entry_id)
    \/ \E user_input \in ConfigInputs, listing \in ListOutcomes :
          StepReauthConfirm(user_input, listing)

SpecConfig == InitSetup /\ [][NextConfig]_vars

(***************************************************************************)
(* Properties of async_setup_entry and async_unload_entry                  *)
(***************************************************************************)
PrepCases == {<<"ok", "none">>} \cup
             {<<prep, exc>> : prep \in PrepFailures(domain),
                              exc \in {"OSError", "GoogleAuthError", "Exception"}}

\* The string parses to an object that lacks a member the credentials object
\* is built from: for Claude the "type" member or a member of the type it
\* names, for Gemini a member of a service account
LacksField(d, s) ==
    /\ s.wf
    /\ s.shape = "object"
    /\ IF d = "claude"
       THEN \/ s.type = NoType
            \/ s.type = "service_account" /\ ~(SAKeys \subseteq s.keys)
            \/ s.type = "authorized_user" /\ ~(AUKeys \subseteq s.keys)
       ELSE ~(SAKeys \subseteq s.keys)

ValidServiceAccount(s) ==
    s.wf /\ s.shape = "object" /\ s.type = "service_account" /\ SAKeys \subseteq s.keys

\* C1: a setup run on a credential string that parses but lacks a needed field
\* ends with ConfigEntryAuthFailed (so never with ConfigEntryNotReady)
C1_MissingFieldAuthFailed ==
    [][\A e \in Entries :
          \A s \in {x \in CredStrings : LacksField(domain, x)} :
             SetupBegin(e, s, "ok", "none", TRUE)
                => /\ outcome'[e] = "ConfigEntryAuthFailed"
                   /\ pc'[e] = "idle"]_vars

C1_Witness ==
    \E e \in Entries :
        /\ pc[e] = "idle"
        /\ outcome[e] = "ConfigEntryAuthFailed"
        /\ log[e] = "missing_fields"

\* C2 as stated: a setup run on a valid service-account string builds the
\* credentials, and every run that built service-account credentials has made
\* exactly one validation call when it ends
C2_Original ==
    [][\A e \in Entries :
          /\ \A s \in {x \in CredStrings : ValidServiceAccount(x)}, c \in PrepCases,
                ok \in BOOLEAN :
                SetupBegin(e, s, c[1], c[2], ok) => built'[e] = "service_account"
          /\ (outcome'[e] # "none" /\ built'[e] = "service_account")
                => validations'[e] = 1]_vars

\* C2 amended: a setup run on a valid service-account string builds the
\* credentials; a run never makes more than one validation call; and a run that
\* built service-account credentials and constructed its client has made
\* exactly one validation call when it ends
C2_ValidatedOnce ==
    [][\A e \in Entries :
          /\ \A s \in {x \in CredStrings : ValidServiceAccount(x)}, c \in PrepCases,
                ok \in BOOLEAN :
                SetupBegin(e, s, c[1], c[2], ok)
                   => /\ built'[e] = "service_account"
                      /\ c[1] = "ok" => pc'[e] = "validating"
          /\ validations'[e] <= 1
          /\ (outcome'[e] # "none" /\ built'[e] = "service_account"
                /\ clientsBuilt'[e] >= 1)
                => validations'[e] = 1]_vars

C2_Witness ==
    \E e \in Entries :
        /\ outcome[e] = "True"
        /\ built[e] = "service_account"
        /\ validations[e] = 1

\* C3 as stated: once the credentials object is built, every exception raised
\* by the client constructor or by the validation call ends the run with
\* ConfigEntryNotReady
C3_Original ==
    [][\A e \in Entries :
          /\ \A result \in ValidationResults \ {"ok"}, ok \in BOOLEAN :
                SetupValidated(e, result, ok) => outcome'[e] = "ConfigEntryNotReady"
          /\ \A s \in {x \in CredStrings : BuildCredentials(domain, x).exc = "none"},
                exc \in PrepExceptions("client"), ok \in BOOLEAN :
                SetupBegin(e, s, "client", exc, ok)
                   => outcome'[e] = "ConfigEntryNotReady"]_vars

\* The outcome the second try block gives an exception
AfterCredentials(exc) ==
    IF exc = "GoogleAuthError" THEN "ConfigEntryAuthFailed" ELSE "ConfigEntryNotReady"

\* C3 amended: once the credentials object is built, a GoogleAuthError raised
\* by the client constructor or by the validation call ends the run with
\* ConfigEntryAuthFailed, and every other exception raised there, or by the
\* writing of the temp file, ends it with ConfigEntryNotReady
C3_AuthErrorOrNotReady ==
    [][\A e \in Entries :
          /\ \A result \in ValidationResults \ {"ok"}, ok \in BOOLEAN :
                SetupValidated(e, result, ok) => outcome'[e] = AfterCredentials(result)
          /\ \A s \in {x \in CredStrings : BuildCredentials(domain, x).exc = "none"},
                prep \in PrepFailures(domain), ok \in BOOLEAN :
                \A exc \in PrepExceptions(prep) :
                   SetupBegin(e, s, prep, exc, ok)
                      => outcome'[e] = AfterCredentials(exc)]_vars

C3_Witness ==
    \E e \in Entries :
        /\ built[e] # "none"
        /\ validations[e] = 1
        /\ outcome[e] = "ConfigEntryAuthFailed"
        /\ log[e] = "auth_during_validation"

\* C4: a setup run on a string that is no JSON text ends with
\* ConfigEntryAuthFailed, and it has written no temp file, set no environment
\* variable, built no credentials and no client, and made no validation call
C4_UnparseableAuthFailed ==
    [][\A e \in Entries :
          \A s \in {x \in CredStrings : ~x.wf}, c \in PrepCases, ok \in BOOLEAN :
             SetupBegin(e, s, c[1], c[2], ok)
                => /\ outcome'[e] = "ConfigEntryAuthFailed"
                   /\ pc'[e] = "idle"
                   /\ files' = files /\ created' = created /\ env' = env
                   /\ unlinkErrors' = unlinkErrors
                   /\ runFile'[e] = NoPath
                   /\ built'[e] = "none"
                   /\ clientsBuilt'[e] = 0
                   /\ validations'[e] = 0]_vars

C4_Witness ==
    \E e \in Entries :
        /\ pc[e] = "idle"
        /\ outcome[e] = "ConfigEntryAuthFailed"
        /\ log[e] = "invalid_json"
        /\ clientsBuilt[e] = 0
        /\ validations[e] = 0

\* C5 as stated: on the Claude path, the temp file a setup run of an entry
\* wrote does not exist once the entry is idle again, that is after a failed
\* setup run and after an unload
C5_Original ==
    domain = "claude" =>
        \A e \in Entries :
            (pc[e] = "idle" /\ runFile[e] # NoPath) => runFile[e] \notin files

\* C5 amended: on the Claude path, the temp file a setup run of an entry wrote
\* does not exist once the entry is idle again, after a failed setup run and
\* after a successful unload, unless os.unlink raised for that file
C5_RemovedUnlessUnlinkFails ==
    domain = "claude" =>
        \A e \in Entries :
            (pc[e] = "idle" /\ runFile[e] # NoPath /\ runFile[e] \notin unlinkErrors)
               => runFile[e] \notin files

C5_Witness ==
    \E e \in Entries :
        /\ domain = "claude"
        /\ pc[e] = "idle"
        /\ log[e] = "unloaded"
        /\ runFile[e] # NoPath
        /\ runFile[e] \notin files

\* C6 as stated: while an entry is set up, exactly one client has been
\* constructed for it, and the platform entities have used no other handle
\* than the one stored in hass.data
C6_Original ==
    \A e \in Entries :
        pc[e] \in {"loaded", "unloading", "failed_unload"}
           => /\ clientsBuilt[e] = 1
              /\ used[e] \subseteq {hassData[e].client}

(***************************************************************************)
(* Properties of the requests                                              *)
(***************************************************************************)
\* The role and the text of an entry of the vendor's list
VendorRole(d, role) == IF d = "gemini" /\ role = "assistant" THEN "model" ELSE role
EntryText(d, entry) == IF d = "claude" THEN entry.content ELSE entry.parts[1].text
OneText(d, entry) == d = "gemini" => Len(entry.parts) = 1

\* C7: the list sent to the vendor for a turn on a chat log of N messages has
\* N+1 entries; entry i has the content of message i, and the role of message
\* i translated (Gemini: assistant to model, user kept; Claude: both kept); the
\* last entry is the new message with role user
C7_ConvertedLog ==
    [][\A t \in Turns, msg \in UserTexts :
          TurnStart(t, msg)
             => LET req == (turn')[t].request
                    N == Len(chatLog)
                IN
                /\ Len(req) = N + 1
                /\ \A i \in 1..N :
                      /\ OneText(domain, req[i])
                      /\ EntryText(domain, req[i]) = chatLog[i].content
                      /\ chatLog[i].role \in {"user", "assistant"}
                            => req[i].role = VendorRole(domain, chatLog[i].role)
                /\ OneText(domain, req[N + 1])
                /\ EntryText(domain, req[N + 1]) = msg
                /\ req[N + 1].role = "user"]_vars

C7_Witness ==
    \E t \in Turns :
        /\ turn[t].pc = "called"
        /\ Len(turn[t].request) >= 3
        /\ domain = "gemini"
        /\ \E i \in 1..Len(turn[t].request) : turn[t].request[i].role = "model"

\* C8: when the vendor call raises, or the response carries no text, the turn
\* does not raise and returns the apology
C8_ApologyReturned ==
    [][\A t \in Turns, response \in VendorResponses :
          (response.kind # "text" /\ TurnFinish(t, response))
             => /\ (turn')[t].pc = "done"
                /\ (turn')[t].result = [raised |-> FALSE, speech |-> Apology]]_vars

C8_Witness ==
    \E t \in Turns :
        /\ turn[t].pc = "done"
        /\ ~turn[t].result.raised
        /\ turn[t].result.speech = Apology

\* C9 as stated: when the vendor call raises, the turn appends the user turn
\* and the apology to the chat log
C9_Original ==
    [][\A t \in Turns, response \in VendorResponses :
          (response.kind = "raise" /\ TurnFinish(t, response))
             => TurnLog(t)' = TurnLog(t) \o
                   <<[role |-> "user", content |-> turn[t].msg],
                     [role |-> "assistant", content |-> Apology]>>]_vars

\* C9 amended: when the vendor call raises, or the response carries no text,
\* the turn leaves the chat log as it is
C9_LogUnchanged ==
    [][\A t \in Turns, response \in VendorResponses :
          (response.kind # "text" /\ TurnFinish(t, response))
             => /\ TurnLog(t)' = TurnLog(t)
                /\ chatLog' = chatLog]_vars

C9_Witness ==
    \E t \in Turns :
        /\ turn[t].pc = "done"
        /\ turn[t].result.speech = Apology
        /\ turn[t].shared
        /\ Len(chatLog) + 1 = Len(turn[t].request)

\* C10 as stated: on every platform an exception raised by the vendor call is
\* not raised to the caller
C10_Original ==
    [][/\ \A t \in Turns :
             TurnFinish(t, [kind |-> "raise", text |-> ""]) => ~(turn')[t].result.raised
       /\ \A structure \in BOOLEAN :
             GenerateData(structure, [kind |-> "raise", text |-> "", json |-> FALSE])
                => ~reqResult'.raised
       /\ ProcessAudioStream(FALSE, [kind |-> "raise", text |-> ""]) => ~reqResult'.raised
       /\ GetTtsAudio([kind |-> "raise"]) => ~reqResult'.raised]_vars

\* C10 amended: an exception raised by the vendor call is turned into an error
\* result by the conversation entity (the apology) and by the speech-to-text
\* entity (an empty text with state ERROR); the AI task entity and the
\* text-to-speech entity raise it to the caller
C10_SwallowedOrRaised ==
    [][/\ \A t \in Turns :
             TurnFinish(t, [kind |-> "raise", text |-> ""])
                => (turn')[t].result = [raised |-> FALSE, speech |-> Apology]
       /\ ProcessAudioStream(FALSE, [kind |-> "raise", text |-> ""])
             => reqResult' = [platform |-> "stt", raised |-> FALSE,
                              value |-> [key |-> "ERROR", text |-> ""]]
       /\ \A structure \in BOOLEAN :
             GenerateData(structure, [kind |-> "raise", text |-> "", json |-> FALSE])
                => (reqResult'.platform = "ai_task" /\ reqResult'.raised)
       /\ GetTtsAudio([kind |-> "raise"])
             => (reqResult'.platform = "tts" /\ reqResult'.raised)]_vars

C10_Witness ==
    /\ reqResult.platform = "tts"
    /\ reqResult.raised
    /\ \E t \in Turns : turn[t].pc = "done" /\ turn[t].result.speech = Apology

\* C11: an AI task with a structure whose response text is no JSON does not
\* fail: its data is the text under the key "text"; when the text is JSON the
\* data is the parsed value
C11_JsonOrTextFallback ==
    [][\A response \in {r \in AiResponses : r.kind = "text"} :
          GenerateData(TRUE, response)
             => /\ ~reqResult'.raised
                /\ reqResult'.value =
                      [key |-> IF response.json THEN "json" ELSE "text",
                       text |-> response.text]]_vars

C11_Witness ==
    /\ reqResult.platform = "ai_task"
    /\ reqResult.structure
    /\ ~reqResult.raised
    /\ reqResult.value = [key |-> "text", text |-> "plain"]

(***************************************************************************)
(* Properties of the custom tools                                          *)
(***************************************************************************)
\* The definitions of a list that are neither reserved nor a repetition of
\* an earlier name
FirstOfName(defs) ==
    {i \in 1..Len(defs) :
        /\ defs[i].name \notin RESERVED_NAMES
        /\ \A j \in 1..(i - 1) : defs[j].name # defs[i].name}

\* The tools have distinct, non-reserved names and are the first definitions
\* of their names, in the order of the list
LoadsFirstOfName(defs, tools) ==
    /\ \A k \in 1..Len(tools) :
          /\ tools[k].definition \in FirstOfName(defs)
          /\ tools[k].name = defs[tools[k].definition].name
          /\ tools[k].name \notin RESERVED_NAMES
    /\ \A k, l \in 1..Len(tools) :
          /\ k # l => tools[k].name # tools[l].name
          /\ k < l => tools[k].definition < tools[l].definition
    /\ \A i \in FirstOfName(defs) : \E k \in 1..Len(tools) : tools[k].definition = i

\* C12 as stated: for every schema-valid list the first definition of every
\* non-reserved name is loaded, in list order, and nothing else
C12_Original ==
    (toolsOut.parsed /\ TOOLS_SCHEMA(toolsIn))
       => LoadsFirstOfName(toolsIn.defs, toolsOut.tools)

\* C12: for a schema-valid list, the tools are the first definitions of the
\* non-reserved names, in list order, when the parameters of each of them
\* convert; when those of one of them do not, no tool is loaded
C12_FirstOfNameOrNone ==
    (toolsOut.parsed /\ TOOLS_SCHEMA(toolsIn))
       => IF \A i \in FirstOfName(toolsIn.defs) :
                toolsIn.defs[i].parameters = "mappings"
          THEN LoadsFirstOfName(toolsIn.defs, toolsOut.tools)
          ELSE toolsOut.tools = << >>

C12_Witness ==
    /\ toolsOut.parsed
    /\ TOOLS_SCHEMA(toolsIn)
    /\ Len(toolsIn.defs) = 3
    /\ toolsIn.defs[1].name = toolsIn.defs[2].name
    /\ Len(toolsOut.tools) = 2
    /\ toolsOut.tools[1].definition = 1
    /\ toolsOut.tools[2].definition = 3

\* C13: a step whose service does not exist, whose call raises or whose call
\* times out gets a failure record with an error message, and the loop goes
\* on with the next step
HandledFailure(step, call) ==
    /\ SplitService(step.service).valid
    /\ \/ ~has_service(SplitService(step.service).domain,
                       SplitService(step.service).service)
       \/ process_templates(step.data) = "none" /\ call \in {"raise", "timeout"}

C13_ContinueOnError ==
    [][\A call \in CallOutcomes :
          (ExecuteStep(call) /\ HandledFailure(sequence[stepNo], call))
             => /\ Len(results') = Len(results) + 1
                /\ SubSeq(results', 1, Len(results)) = results
                /\ results'[Len(results')].service = sequence[stepNo].service
                /\ ~results'[Len(results')].success
                /\ results'[Len(results')].error # ""
                /\ scriptPc' = "running"
                /\ stepNo' = stepNo + 1]_vars

C13_Witness ==
    /\ scriptPc = "returned"
    /\ Len(sequence) = 3
    /\ Len(results) = 3
    /\ results[1].success
    /\ ~results[2].success
    /\ results[2].error = "Service does not exist"
    /\ results[3].success

\* C14 as stated: the returned results list has one record per step of the
\* sequence, the i-th record naming the service of the i-th step
C14_Original ==
    scriptPc = "returned"
       => /\ Len(results) = Len(sequence)
          /\ \A i \in 1..Len(results) : results[i].service = sequence[i].service

\* C15: parse_custom_tools raises nothing; on malformed YAML, on a schema
\* violation and on any other error it returns the empty list
C15_ParseNeverRaises ==
    toolsOut.parsed
       => /\ ~toolsOut.raised
          /\ (toolsIn.kind # "blank" /\ ParseBody(toolsIn).exc # "none")
                => toolsOut.tools = << >> /\ toolsOut.log # ""

C15_Witness ==
    /\ toolsOut.parsed
    /\ ~toolsOut.raised
    /\ toolsOut.tools = << >>
    /\ toolsOut.log = "Unexpected error parsing custom tools"
    /\ Len(toolsIn.defs) = 2
    /\ toolsIn.defs[1].parameters = "mappings"
    /\ toolsIn.defs[1].name \notin RESERVED_NAMES

(***************************************************************************)
(* Properties of the subentry flow                                         *)
(***************************************************************************)
\* The flow has created or updated a subentry
FlowSaved == flow.result \in {"create_entry", "update"}
FlowSavedNext == flow'.result \in {"create_entry", "update"}

\* The steps the flow has come to
StepsEntered == {flow.entered[i] : i \in 1..Len(flow.entered)}

\* The init step ended the flow (as it is in the next state) with the
\* subentry created or updated from the input
EndsAtInit(user_input) ==
    /\ flow'.result = IF flow.source = "user" THEN "create_entry" ELSE "update"
    /\ flow'.step = "none"
    /\ flow'.entered = <<"init">>
    /\ flow'.data = Pop(user_input, {CONF_NAME})
    /\ subentry' = [subentry_type |-> flow.subentry_type, data |-> flow'.data]

\* The init step went on to the advanced step
GoesToAdvanced ==
    /\ flow'.result = "none"
    /\ flow'.step = "advanced"
    /\ flow'.entered = <<"init", "advanced">>
    /\ subentry' = subentry

\* C16 as stated: a submitted init step with Recommended on creates or
\* updates the subentry there, with Recommended off it goes to the advanced step
C16_Original ==
    [][\A user_input \in UserInputs(flow.fields) :
          FlowSubmitInit(CredEntry, user_input)
             => IF user_input[CONF_RECOMMENDED] THEN EndsAtInit(user_input)
                ELSE GoesToAdvanced]_vars

\* C16: when the config entry is loaded, a submitted init step with
\* Recommended on creates or updates the subentry there, without the advanced
\* and model steps, and with Recommended off goes to the advanced step; when
\* the entry is not loaded the flow aborts and no subentry is saved
C16_RecommendedEndsAtInit ==
    [][\A user_input \in UserInputs(flow.fields) :
          FlowSubmitInit(CredEntry, user_input)
             => IF pc[CredEntry] # "loaded"
                THEN /\ flow'.result = "abort"
                     /\ flow'.entered = <<"init">>
                     /\ subentry' = subentry
                ELSE IF user_input[CONF_RECOMMENDED] THEN EndsAtInit(user_input)
                ELSE GoesToAdvanced]_vars

C16_Witness ==
    /\ flow.source = "reconfigure"
    /\ CONF_CHAT_MODEL \in DOMAIN flow.reconfigured
    /\ flow.result = "update"
    /\ flow.entered = <<"init">>
    /\ flow.input[CONF_RECOMMENDED]
    /\ subentry.data = flow.data
    /\ CONF_CHAT_MODEL \notin DOMAIN subentry.data

\* The model name begins with a member of the list
HasPrefixIn(model, list) ==
    \E p \in list : \A i \in 1..Len(p) : i <= Len(model) /\ model[i] = p[i]

\* C17: the model form offers the thinking budget exactly for the models
\* outside the non-thinking list and the web search fields exactly for the
\* models outside the web-search-unsupported list; the data saved from the
\* model step has no thinking budget for a model of the first list and no
\* web search keys for a model of the second
C17_FieldsByModel ==
    /\ flow.step = "model"
          => LET model == flow.options[CONF_CHAT_MODEL]
             IN  /\ CONF_THINKING_BUDGET \in flow.fields
                       <=> ~HasPrefixIn(model, NON_THINKING_MODELS)
                 /\ \A key \in WebSearchFields :
                       key \in flow.fields
                          <=> ~HasPrefixIn(model, WEB_SEARCH_UNSUPPORTED_MODELS)
    /\ (FlowSaved /\ "model" \in StepsEntered)
          => LET model == flow.data[CONF_CHAT_MODEL]
             IN  /\ subentry.data = flow.data
                 /\ HasPrefixIn(model, NON_THINKING_MODELS)
                       => CONF_THINKING_BUDGET \notin DOMAIN flow.data
                 /\ HasPrefixIn(model, WEB_SEARCH_UNSUPPORTED_MODELS)
                       => WebSearchFields \cap DOMAIN flow.data = {}
                 /\ ~HasPrefixIn(model, NON_THINKING_MODELS)
                       => CONF_THINKING_BUDGET \in DOMAIN flow.data
                 /\ ~HasPrefixIn(model, WEB_SEARCH_UNSUPPORTED_MODELS)
                       => WebSearchFields \subseteq DOMAIN flow.data

C17_Witness ==
    /\ flow.source = "reconfigure"
    /\ CONF_THINKING_BUDGET \in DOMAIN flow.reconfigured
    /\ CONF_WEB_SEARCH \in DOMAIN flow.reconfigured
    /\ flow.result = "update"
    /\ "model" \in StepsEntered
    /\ flow.data[CONF_CHAT_MODEL] = <<"claude", "3", "haiku">>
    /\ CONF_THINKING_BUDGET \notin DOMAIN subentry.data
    /\ CONF_WEB_SEARCH \notin DOMAIN subentry.data

\* The submitted values have web search and use-my-location switched on
BothEnabled(user_input) ==
    /\ CONF_WEB_SEARCH \in DOMAIN user_input
    /\ user_input[CONF_WEB_SEARCH]
    /\ CONF_WEB_SEARCH_USER_LOCATION \in DOMAIN user_input
    /\ user_input[CONF_WEB_SEARCH_USER_LOCATION]

\* C18: the model step looks the location up exactly when the submitted
\* values have web search and use-my-location on; the data saved from the
\* model step has location keys only then, whatever the subentry stored before
C18_LookupWhenBothEnabled ==
    (FlowSaved /\ "model" \in StepsEntered)
       => /\ flow.lookup <=> BothEnabled(flow.input)
          /\ LocationKeys \cap DOMAIN flow.data # {} => flow.lookup
          /\ flow.lookup => CONF_WEB_SEARCH_TIMEZONE \in DOMAIN flow.data
          /\ subentry.data = flow.data

C18_Witness ==
    /\ flow.source = "reconfigure"
    /\ LocationKeys \subseteq DOMAIN flow.reconfigured
    /\ flow.result = "update"
    /\ "model" \in StepsEntered
    /\ WebSearchFields \subseteq DOMAIN flow.input
    /\ flow.input[CONF_WEB_SEARCH]
    /\ ~flow.input[CONF_WEB_SEARCH_USER_LOCATION]
    /\ ~flow.lookup
    /\ LocationKeys \cap DOMAIN subentry.data = {}

\* The steps of the wizard, in their order
WizardSteps == <<"init", "advanced", "model">>

\* C19: the steps a flow comes to are init, advanced, model in this order,
\* none left out and none come back to; the advanced step is reached only
\* with Recommended off; the subentry changes only when the flow ends at
\* init with Recommended on or in the model step
C19_Linear ==
    [][/\ Len(flow'.entered) <= Len(WizardSteps)
       /\ flow'.entered = SubSeq(WizardSteps, 1, Len(flow'.entered))
       /\ flow'.step # "none" => flow'.step = flow'.entered[Len(flow'.entered)]
       /\ Len(flow'.entered) > 1 => ~flow'.options[CONF_RECOMMENDED]
       /\ FlowSavedNext
             => \/ flow'.entered = <<"init">> /\ flow'.input[CONF_RECOMMENDED]
                \/ flow'.entered = WizardSteps
       /\ subentry' # subentry
             => /\ FlowSavedNext
                /\ flow.step \in {"init", "advanced", "model"}
                /\ flow.step = "advanced" => ModelSchema(flow'.data[CONF_CHAT_MODEL]) = {}]_vars

C19_Witness ==
    /\ flow.source = "user"
    /\ flow.result = "create_entry"
    /\ flow.entered = WizardSteps
    /\ ~flow.data[CONF_RECOMMENDED]

(***************************************************************************)
(* Properties of the diagnostics                                           *)
(***************************************************************************)
\* The entry with another credential in its data and wherever its
\* subentries hold it
WithCredential(entry, credential) ==
    LET put(data) == [key \in DOMAIN data |->
                         IF key = CONF_SERVICE_ACCOUNT_JSON THEN credential
                         ELSE data[key]]
    IN  [entry EXCEPT !.data = put(@),
                      !.runtime_data.subentries =
                          [i \in 1..Len(@) |-> [@[i] EXCEPT !.data = put(@)]]]

\* The values of a dictionary
ValuesOf(data) == {data[key] : key \in DOMAIN data}

\* C20: the export is the same whatever the credential of the entry, and
\* the credential is no value of the exported entry data, options or
\* subentry data
C20_ExportHidesCredential ==
    diagOut.done
       => LET export == diagOut.export
              credential == diagEntry.data[CONF_SERVICE_ACCOUNT_JSON]
          IN  /\ \A other \in DiagCredentials :
                    async_get_config_entry_diagnostics(WithCredential(diagEntry, other))
                       = export
              /\ credential \notin ValuesOf(export.entry.data)
              /\ credential \notin ValuesOf(export.entry.options)
              /\ "subentries" \in DOMAIN export
                    => \A i \in 1..Len(export.subentries) :
                          credential \notin ValuesOf(export.subentries[i].data)

C20_Witness ==
    /\ diagOut.done
    /\ diagOut.export.entry.data[CONF_SERVICE_ACCOUNT_JSON] = REDACTED
    /\ "subentries" \in DOMAIN diagOut.export
    /\ Len(diagOut.export.subentries) = 2
    /\ CONF_SERVICE_ACCOUNT_JSON \in DOMAIN diagOut.export.subentries[1].data
    /\ diagOut.export.subentries[1].data[CONF_SERVICE_ACCOUNT_JSON] = REDACTED

(***************************************************************************)
(* The chat log over a turn, and over two turns that overlap.              *)
(***************************************************************************)
\* the turn t works on the caller's list and the vendor call gave a text
Succeeds(t, response) ==
    /\ turn[t].shared
    /\ GenerateText(domain, response).exc = "none"

\* the two entries a successful turn adds
Exchange(t, response) ==
    <<[role |-> "user", content |-> turn[t].msg],
      [role |-> "assistant", content |-> GenerateText(domain, response).text]>>

\* C22: a successful turn on a chat log that is not empty keeps the entries
\* the list has and appends the user turn and then the reply to the caller's
\* list, which is the list of the result; the step of the turn up to the
\* vendor call leaves the list as it is
C22_AppendsExchange ==
    [][/\ \A t \in Turns : \A response \in VendorResponses :
            TurnFinish(t, response) /\ Succeeds(t, response)
            => /\ chatLog' = chatLog \o Exchange(t, response)
               /\ turn'[t].shared /\ turn'[t].own = <<>>
               /\ turn'[t].result.speech = response.text
       /\ \A t \in Turns : \A msg \in UserTexts :
            TurnStart(t, msg) => chatLog' = chatLog]_vars

C22_Witness ==
    \E t \in Turns :
        /\ turn[t].pc = "done"
        /\ turn[t].shared
        /\ turn[t].result.speech \in ReplyTexts
        /\ Len(chatLog) >= 3
        /\ chatLog[Len(chatLog) - 1] = [role |-> "user", content |-> turn[t].msg]
        /\ chatLog[Len(chatLog)] = [role |-> "assistant", content |-> turn[t].result.speech]

\* C23 as stated: when two turns on the same chat log overlap and both vendor
\* calls succeed, each turn appends its user entry and then its reply, and
\* the request of a turn holds every entry the list has when the reply of the
\* turn is appended
C23_Original ==
    [][\A t \in Turns : \A response \in VendorResponses :
            TurnFinish(t, response) /\ Succeeds(t, response)
            => /\ chatLog' = chatLog \o Exchange(t, response)
               /\ turn[t].request = ConvertChatLog(domain, chatLog, turn[t].msg)]_vars

(***************************************************************************)
(* hass.data and the credentials files over setups and unloads.            *)
(***************************************************************************)
SetupFailures == {"ConfigEntryAuthFailed", "ConfigEntryNotReady"}

\* C24: the data of an entry is stored, and its platforms are forwarded, only
\* by the step that follows a validation call that succeeded; a step of the
\* setup that ends it with ConfigEntryAuthFailed or ConfigEntryNotReady
\* leaves hass.data without the entry
C24_StoredAfterValidation ==
    [][\A e \in Entries :
         /\ \A result \in ValidationResults, ok \in BOOLEAN :
               SetupValidated(e, result, ok) /\ result # "ok"
               => /\ ~hassData'[e].present
                  /\ pc'[e] # "forwarding"
                  /\ outcome'[e] \in SetupFailures
         /\ (hassData'[e].present /\ ~hassData[e].present)
               => pc[e] = "validating" /\ validations'[e] = validations[e] + 1
         /\ (pc'[e] = "forwarding" /\ pc[e] # "forwarding")
               => pc[e] = "validating" /\ hassData'[e].present
         /\ (outcome'[e] \in SetupFailures /\ pc[e] # "idle" /\ pc'[e] = "idle")
               => ~hassData'[e].present
         /\ (pc[e] = "idle" /\ pc'[e] = "idle") => ~hassData'[e].present]_vars

C24_Witness ==
    \E e \in Entries :
        /\ pc[e] = "forwarding"
        /\ hassData[e].present
        /\ hassData[e].client = runClient[e]
        /\ validations[e] = 1

\* the entries whose setup returned True and that were not unloaded
LoadedEntries == {e \in Entries : pc[e] \in {"loaded", "failed_unload"}}

\* C25 as stated: on the Claude path, whenever an entry is loaded the
\* environment variable names a file that exists and is the credentials file
\* of a loaded entry
C25_Original ==
    (domain = "claude" /\ LoadedEntries # {})
    => \E e \in LoadedEntries :
          /\ env = hassData[e].credentials_path
          /\ env \in files

\* no setup and no unload is under way
Settled == \A e \in Entries : pc[e] \in {"idle", "loaded", "failed_unload"}

\* C26 as stated: on the Claude path, when no setup and no unload is under
\* way, every credentials temp file on disk is the credentials_path of a
\* loaded entry
C26_Original ==
    (domain = "claude" /\ Settled)
    => \A f \in files :
          \E e \in LoadedEntries :
             hassData[e].present /\ hassData[e].credentials_path = f

\* C27 as stated: whatever the credential string, a run of async_setup_entry
\* ends with True, with ConfigEntryAuthFailed or with ConfigEntryNotReady
C27_Original ==
    \A e \in Entries :
        pc[e] = "idle" => outcome[e] \in {"none", "True"} \cup SetupFailures

\* what async_unload_entry does when the platforms did not unload
UnloadFailed(e) ==
    /\ hassData' = hassData
    /\ hassKeys' = hassKeys
    /\ files' = files
    /\ pc'[e] = "failed_unload"
    /\ log'[e] = "unload_failed"

\* what async_unload_entry does to hass.data when the platforms unloaded
RecordRemoved(e) ==
    /\ hassData' = [hassData EXCEPT ![e] = NoData]
    /\ hassKeys' = IF \E o \in Entries \ {e} : hassData[o].present
                   THEN hassKeys ELSE hassKeys \ {domain}
    /\ pc'[e] = "idle"

\* C28 as stated: when the platforms unloaded, the record of the entry is
\* removed from hass.data, the domain key too once no entry remains, and on
\* the Claude path the credentials file of the entry is gone; when they did
\* not unload, hass.data and the files stay as they are
C28_Original ==
    [][\A e \in Entries : \A unload_ok \in BOOLEAN, ok \in BOOLEAN :
         UnloadFinish(e, unload_ok, ok)
         => IF unload_ok
            THEN /\ RecordRemoved(e)
                 /\ domain = "claude" => hassData[e].credentials_path \notin files'
            ELSE UnloadFailed(e)]_vars

\* C28: as C28_Original, but the credentials file of the entry is gone unless
\* os.unlink raises for it: then the file stays, no other file is touched,
\* the failure is logged and the record is removed all the same
C28_UnloadEffects ==
    [][\A e \in Entries : \A unload_ok \in BOOLEAN, ok \in BOOLEAN :
         UnloadFinish(e, unload_ok, ok)
         => LET path == hassData[e].credentials_path IN
            IF unload_ok
            THEN /\ RecordRemoved(e)
                 /\ IF domain = "claude" /\ path \in files
                    THEN IF ok
                         THEN files' = files \ {path} /\ log'[e] = "unloaded"
                         ELSE files' = files /\ log'[e] = "cleanup_failed"
                    ELSE files' = files /\ log'[e] = "unloaded"
            ELSE UnloadFailed(e)]_vars

C28_Witness ==
    \E e \in Entries :
        /\ domain = "claude"
        /\ pc[e] = "idle"
        /\ log[e] = "unloaded"
        /\ ~hassData[e].present
        /\ domain \notin hassKeys
        /\ runFile[e] # NoPath
        /\ runFile[e] \notin files
        /\ runFile[e] \notin unlinkErrors

\* C29 as stated: _execute_script never raises; a step whose handling fails
\* leaves a record, and the steps after it are run
C29_Original ==
    /\ scriptPc # "raised"
    /\ scriptPc = "returned" => stepNo = Len(sequence) + 1

(***************************************************************************)
(* The Gemini config flow.                                                 *)
(***************************************************************************)
\* the checks of a submitted string, in the order the claim gives them
IsJsonObject(s) == s.wf /\ s.shape = "object"
HasRequiredFields(s) ==
    s.type # NoType /\ {"project_id", "private_key", "client_email"} \subseteq s.keys
IsServiceAccount(s) == s.type = "service_account"
StructurallyValid(s) == IsJsonObject(s) /\ HasRequiredFields(s) /\ IsServiceAccount(s)

\* the code of the first check that fails, when a structural check fails
FirstFailing(s) ==
    IF ~IsJsonObject(s) THEN "invalid_json"
    ELSE IF ~HasRequiredFields(s) THEN "missing_fields"
    ELSE "invalid_type"

\* the user step has been submitted
UserSubmitted == configFlow.source = "user" /\ configFlow.input # NoInput

C30_Original ==
    [][(configFlow.step = "reauth_confirm" /\ configFlow'.result = "reauth_successful")
       => LET p == configFlow.reauth_entry IN
          /\ configEntries'[p].data.project_id = configEntries[p].data.project_id
          /\ configEntries'[p].data.location = configEntries[p].data.location
          /\ configEntries'[p].data.service_account_json
                = configFlow'.input.service_account_json
          /\ \A q \in Projects \ {p} : configEntries'[q] = configEntries[q]
          /\ configFlow'.validation.client
                = [project |-> configEntries'[p].data.project_id,
                   location |-> configEntries'[p].data.location]]_vars

====
